---- MODULE Spec2Model ----
(***************************************************************************)
(* Model of gcs_antal: the NATS auth_callout responder that verifies       *)
(* GitLab tokens and falls back to a JetStream KV token cache.             *)
(*                                                                         *)
(* Strings that the code only compares (tokens, keys, error texts) are     *)
(* TLA+ strings.  Strings that the code takes apart or puts together       *)
(* (usernames, subject patterns) are sequences of lexical atoms, so that   *)
(* template substitution and subject validation are computed.              *)
(***************************************************************************)
EXTENDS Integers, Sequences, FiniteSets, TLC

\* ------------------------------------------------------------------ bounds

\* The wall clock runs from 0 to MaxTime seconds.
MaxTime == 2

\* gitlab.retries is configured between 0 and MaxRetries.
MaxRetries == 2

\* The subscription holds at most MaxPending undelivered requests.
MaxPending == 2

\* gitlab.timeout, the time one attempt may take, in seconds.
GitLabTimeout == 2

\* ------------------------------------------------------- program constants

\* token_cache.ttl, the TTL the cache is configured with, in seconds.
StoreTTL == 1

\* ------------------------------------------------------------- value space

\* Go's nil error.
Nil == "nil"

ErrInvalidToken == "invalid token"
ErrTokenCacheMiss == "token cache miss"

\* Errors of the nats.go KV API.
ErrKeyNotFound == "nats: key not found"
ErrKVUnavailable == "nats: timeout"

\* Errors a GitLab call can end with (the last attempt's error, wrapped).
ErrDeadlineExceeded == "context deadline exceeded"
ErrGitLab503 == "gitlab: 503"
ErrGitLab403 == "gitlab: 403"
ErrGitLab401 == "gitlab: 401"
ErrDialRefused == "dial tcp: connection refused"

\* Further errors a GitLabVerifier can hand to AuthorizeToken: other
\* statuses, a cancelled context, an HTTP client timeout (a net.Error that
\* is no *net.OpError), a resolver failure marked temporary, and a
\* certificate error (inside a *url.Error, reporting neither).
ErrGitLab500 == "gitlab: 500"
ErrGitLab404 == "gitlab: 404"
ErrGitLab429 == "gitlab: 429"
ErrCanceled == "context canceled"
ErrHeaderTimeout == "net/http: timeout awaiting response headers"
ErrResolverTemporary == "lookup: temporary failure in name resolution"
ErrCertificate == "x509: certificate signed by unknown authority"

\* Service instances sharing one JetStream KV bucket.
Instances == {"A", "B"}

\* Tokens a client may present as its connect password.
Tokens == {"", "glpat-a", "glpat-b"}

\* Values of token_cache.hmac_secret; the instances of one deployment are
\* configured with the same one.
Secrets == {"s1", "s2"}
SharedSecret == "s1"

\* The GitLab account a token belongs to, as Users.CurrentUser reports it.
GitLabUsername(token) ==
    CASE token = "glpat-a" -> <<"alice">>
      [] token = "glpat-b" -> <<"bob">>
      [] OTHER -> <<>>

\* The scopes GetSinglePersonalAccessToken reports for a token.
GitLabScopes(token) ==
    CASE token = "glpat-a" -> <<"read_api", "read_user">>
      [] token = "glpat-b" -> <<"api">>
      [] OTHER -> <<>>

\* A nil *VerifiedToken.
NilVerified == [isNil |-> TRUE, Username |-> <<>>, Scopes |-> <<>>]

VerifiedToken(username, scopes) ==
    [isNil |-> FALSE, Username |-> username, Scopes |-> scopes]

\* ---------------------------------------------------------- key derivation

\* hex(HMAC-SHA256(secret, token)): the digest is opaque, one per pair.
HMACSHA256Hex(secret, token) ==
    CASE secret = "s1" /\ token = "glpat-a" -> "5f1c9a41"
      [] secret = "s1" /\ token = "glpat-b" -> "c07e13d2"
      [] secret = "s2" /\ token = "glpat-a" -> "3d52b8e6"
      [] secret = "s2" /\ token = "glpat-b" -> "e8b604f7"
      [] OTHER -> "00000000"

\* A faulty variant: the token itself is used as the key.
tokenCacheKey_Plaintext(token, secret) ==
    IF token = "" THEN [key |-> "", err |-> ErrInvalidToken]
    ELSE IF secret = "" THEN [key |-> "", err |-> "token cache hmac_secret is empty"]
    ELSE [key |-> token, err |-> Nil]

\* A faulty variant: the key is derived from the secret alone.
tokenCacheKey_SecretOnly(token, secret) ==
    IF token = "" THEN [key |-> "", err |-> ErrInvalidToken]
    ELSE IF secret = "" THEN [key |-> "", err |-> "token cache hmac_secret is empty"]
    ELSE [key |-> HMACSHA256Hex(secret, "glpat-a"), err |-> Nil]

tokenCacheKey(token, secret) ==
    IF token = "" THEN [key |-> "", err |-> ErrInvalidToken]
    ELSE IF secret = "" THEN [key |-> "", err |-> "token cache hmac_secret is empty"]
    ELSE [key |-> HMACSHA256Hex(secret, token), err |-> Nil]

\* ------------------------------------------------------------ cache entry

\* strings.Join(elems, ",")
RECURSIVE JoinComma(_)
JoinComma(elems) ==
    IF Len(elems) = 0 THEN ""
    ELSE IF Len(elems) = 1 THEN elems[1]
    ELSE elems[1] \o "," \o JoinComma(Tail(elems))

\* now().UTC().Format(time.RFC3339): the instant, printed to the second.
FormatRFC3339(t) == "1970-01-01T00:00:0" \o ToString(t) \o "Z"

TokenCacheEntry(username, scopes, lastVerifiedAt) ==
    [Username |-> username, Scopes |-> scopes, LastVerifiedAt |-> lastVerifiedAt]

NoEntry == TokenCacheEntry(<<>>, "", "")

\* json.Marshal of a TokenCacheEntry: an object with the struct's json tags.
marshalTokenCacheEntry(entry) ==
    [username |-> entry.Username,
     scopes |-> entry.Scopes,
     last_verified_at |-> entry.LastVerifiedAt]

\* Bytes that are not JSON.
NotJSON == [raw |-> "not json"]

\* A JSON object without any of the entry's fields.
ForeignObject == [other |-> "value"]

\* A faulty variant: bytes that do not decode give the zero entry.
unmarshalTokenCacheEntry_Lenient(b) ==
    [entry |-> TokenCacheEntry(
                   IF "username" \in DOMAIN b THEN b.username ELSE <<>>,
                   IF "scopes" \in DOMAIN b THEN b.scopes ELSE "",
                   IF "last_verified_at" \in DOMAIN b THEN b.last_verified_at
                   ELSE ""),
     err |-> Nil]

\* json.Unmarshal into a TokenCacheEntry: it fails on bytes that are not
\* JSON; of a JSON object it takes the fields the struct has and leaves the
\* others at their zero values.
unmarshalTokenCacheEntry(b) ==
    IF "raw" \in DOMAIN b
    THEN [entry |-> NoEntry, err |-> "json: cannot unmarshal"]
    ELSE [entry |-> TokenCacheEntry(
                        IF "username" \in DOMAIN b THEN b.username ELSE <<>>,
                        IF "scopes" \in DOMAIN b THEN b.scopes ELSE "",
                        IF "last_verified_at" \in DOMAIN b THEN b.last_verified_at
                        ELSE ""),
          err |-> Nil]

\* ------------------------------------------------------- the KV bucket

\* The bucket maps the keys it holds to [value, storedAt].  kv.Put stores a
\* new revision stamped with the store's clock.
KVPut(store, key, data, now) ==
    (key :> [value |-> data, storedAt |-> now]) @@ store

\* The configuration a bucket was created with: its TTL (MaxAge), in seconds.
KeyValueConfig(ttl) == [ttl |-> ttl]

\* The buckets an instance may find under the configured name: one made with
\* the TTL this instance is configured with, or one made with a longer TTL.
ExistingBuckets == {KeyValueConfig(StoreTTL), KeyValueConfig(StoreTTL + 1)}

\* NewJetStreamTokenCache binds to the bucket of the configured name as it
\* stands when there is one, and creates it with cfg.TTL only when it is
\* missing.
NewJetStreamTokenCache(found, existing, ttl) ==
    IF found THEN existing ELSE KeyValueConfig(ttl)

VARIABLE
    bucket      \* the configuration of the KV bucket the instances are bound to

\* An entry is served while it is no older than the bucket's TTL.
KVLive(store, key, now) ==
    /\ key \in DOMAIN store
    /\ ~(now - store[key].storedAt > bucket.ttl)

\* A faulty variant: the bucket serves entries of any age.
KVGet_ServesExpired(store, key, now, fault) ==
    IF fault THEN [value |-> marshalTokenCacheEntry(NoEntry), err |-> ErrKVUnavailable]
    ELSE IF key \notin DOMAIN store
    THEN [value |-> marshalTokenCacheEntry(NoEntry), err |-> ErrKeyNotFound]
    ELSE [value |-> store[key].value, err |-> Nil]

\* A faulty variant: an entry past its TTL is reported as an error of its own.
KVGet_ExpiredError(store, key, now, fault) ==
    IF fault THEN [value |-> marshalTokenCacheEntry(NoEntry), err |-> ErrKVUnavailable]
    ELSE IF key \notin DOMAIN store
    THEN [value |-> marshalTokenCacheEntry(NoEntry), err |-> ErrKeyNotFound]
    ELSE IF now - store[key].storedAt > bucket.ttl
    THEN [value |-> marshalTokenCacheEntry(NoEntry), err |-> "nats: key expired"]
    ELSE [value |-> store[key].value, err |-> Nil]

\* kv.Get: the value, ErrKeyNotFound, or a store error when `fault`.
KVGet(store, key, now, fault) ==
    IF fault THEN [value |-> marshalTokenCacheEntry(NoEntry), err |-> ErrKVUnavailable]
    ELSE IF ~KVLive(store, key, now)
    THEN [value |-> marshalTokenCacheEntry(NoEntry), err |-> ErrKeyNotFound]
    ELSE [value |-> store[key].value, err |-> Nil]

\* A faulty variant: the lookup uses the logged key prefix instead of the key.
JetStreamTokenCacheGet_PrefixKey(secret, token, store, now, fault) ==
    LET k == tokenCacheKey(token, secret) IN
    IF k.err # Nil THEN [entry |-> NoEntry, err |-> k.err]
    ELSE LET got == KVGet(store, "keyPrefix", now, fault) IN
         IF got.err # Nil
         THEN IF got.err = ErrKeyNotFound
              THEN [entry |-> NoEntry, err |-> ErrTokenCacheMiss]
              ELSE [entry |-> NoEntry, err |-> got.err]
         ELSE unmarshalTokenCacheEntry(got.value)

\* (*JetStreamTokenCache).Get
JetStreamTokenCacheGet(secret, token, store, now, fault) ==
    LET k == tokenCacheKey(token, secret) IN
    IF k.err # Nil THEN [entry |-> NoEntry, err |-> k.err]
    ELSE LET got == KVGet(store, k.key, now, fault) IN
         IF got.err # Nil
         THEN IF got.err = ErrKeyNotFound
              THEN [entry |-> NoEntry, err |-> ErrTokenCacheMiss]
              ELSE [entry |-> NoEntry, err |-> got.err]
         ELSE unmarshalTokenCacheEntry(got.value)

\* (*JetStreamTokenCache).Put
JetStreamTokenCachePut(secret, token, entry, store, now, fault) ==
    LET k == tokenCacheKey(token, secret) IN
    IF k.err # Nil THEN [err |-> k.err, store |-> store]
    ELSE LET data == marshalTokenCacheEntry(entry) IN
         IF fault THEN [err |-> ErrKVUnavailable, store |-> store]
         ELSE [err |-> Nil, store |-> KVPut(store, k.key, data, now)]

\* ------------------------------------------------- error classification

\* What errors.Is / errors.As find in the chain of a verifier error.
IsDeadlineExceeded(err) == err = ErrDeadlineExceeded

\* net.Error in the chain, and what its Timeout() and Temporary() report.
IsNetError(err) ==
    err \in {ErrDeadlineExceeded, ErrDialRefused, ErrHeaderTimeout,
             ErrResolverTemporary, ErrCertificate}
NetTimeout(err) == err \in {ErrDeadlineExceeded, ErrHeaderTimeout}
NetTemporary(err) == err \in {ErrDeadlineExceeded, ErrResolverTemporary}

\* *url.Error and *net.OpError in the chain.
IsURLError(err) == err \in {ErrDialRefused, ErrHeaderTimeout, ErrCertificate}
IsOpError(err) == err \in {ErrDialRefused}

\* statusCodeFromGitLabError: the HTTP status of a *gitlab.ErrorResponse.
statusCodeFromGitLabError(err) ==
    CASE err = ErrGitLab503 -> [code |-> 503, ok |-> TRUE]
      [] err = ErrGitLab403 -> [code |-> 403, ok |-> TRUE]
      [] err = ErrGitLab401 -> [code |-> 401, ok |-> TRUE]
      [] err = ErrGitLab500 -> [code |-> 500, ok |-> TRUE]
      [] err = ErrGitLab404 -> [code |-> 404, ok |-> TRUE]
      [] err = ErrGitLab429 -> [code |-> 429, ok |-> TRUE]
      [] OTHER -> [code |-> 0, ok |-> FALSE]

\* A faulty variant: a timeout is not treated as transient.
isFallbackToCacheError_NoDeadline(err) ==
    IF err = Nil THEN FALSE
    ELSE IF statusCodeFromGitLabError(err).ok
    THEN statusCodeFromGitLabError(err).code >= 500
    ELSE FALSE

\* A faulty variant: every provider status counts as transient.
isFallbackToCacheError_AnyStatus(err) ==
    IF err = Nil THEN FALSE
    ELSE IF IsDeadlineExceeded(err) THEN TRUE
    ELSE IF IsNetError(err) /\ (NetTimeout(err) \/ NetTemporary(err)) THEN TRUE
    ELSE IF IsURLError(err) /\ (NetTimeout(err) \/ NetTemporary(err)) THEN TRUE
    ELSE IF IsOpError(err) THEN TRUE
    ELSE statusCodeFromGitLabError(err).ok

\* A faulty variant: a rate-limited provider counts as unreachable.
isFallbackToCacheError_RateLimited(err) ==
    IF err = Nil THEN FALSE
    ELSE IF IsDeadlineExceeded(err) THEN TRUE
    ELSE IF IsNetError(err) /\ (NetTimeout(err) \/ NetTemporary(err)) THEN TRUE
    ELSE IF IsURLError(err) /\ (NetTimeout(err) \/ NetTemporary(err)) THEN TRUE
    ELSE IF IsOpError(err) THEN TRUE
    ELSE IF statusCodeFromGitLabError(err).ok
    THEN statusCodeFromGitLabError(err).code >= 429
    ELSE FALSE

isFallbackToCacheError(err) ==
    IF err = Nil THEN FALSE
    ELSE IF IsDeadlineExceeded(err) THEN TRUE
    ELSE IF IsNetError(err) /\ (NetTimeout(err) \/ NetTemporary(err)) THEN TRUE
    ELSE IF IsURLError(err) /\ (NetTimeout(err) \/ NetTemporary(err)) THEN TRUE
    ELSE IF IsOpError(err) THEN TRUE
    ELSE IF statusCodeFromGitLabError(err).ok
    THEN statusCodeFromGitLabError(err).code >= 500
    ELSE FALSE

\* ---------------------------------------------------------- AuthorizeToken

AuthorizeResult(allow, fromCache, verified, cacheWriteErr) ==
    [Allow |-> allow, FromCache |-> fromCache, Verified |-> verified,
     CacheWriteErr |-> cacheWriteErr]

\* What a call of AuthorizeToken leaves behind: its two return values, the
\* bucket after it, and the number of cache.Get / cache.Put calls it made.
AuthorizeOutcome(res, err, store, gets, puts) ==
    [res |-> res, err |-> err, store |-> store, gets |-> gets, puts |-> puts]

\* A faulty variant: the cache is consulted after every verifier error, the
\* invalid-token rejection included.
AuthorizeToken_CacheOnAnyError(token, vr, cacheOn, secret, store, now, fault) ==
    LET deny == AuthorizeResult(FALSE, FALSE, NilVerified, Nil) IN
    IF vr.err = Nil
    THEN IF cacheOn
         THEN LET put == JetStreamTokenCachePut(
                             secret, token,
                             TokenCacheEntry(vr.vt.Username,
                                             JoinComma(vr.vt.Scopes),
                                             FormatRFC3339(now)),
                             store, now, fault) IN
              AuthorizeOutcome(AuthorizeResult(TRUE, FALSE, vr.vt, put.err),
                               Nil, put.store, 0, 1)
         ELSE AuthorizeOutcome(AuthorizeResult(TRUE, FALSE, vr.vt, Nil),
                               Nil, store, 0, 0)
    ELSE IF cacheOn
    THEN LET got == JetStreamTokenCacheGet(secret, token, store, now, fault) IN
         IF got.err = Nil
         THEN AuthorizeOutcome(AuthorizeResult(TRUE, TRUE, NilVerified, Nil),
                               Nil, store, 1, 0)
         ELSE IF got.err = ErrTokenCacheMiss
         THEN AuthorizeOutcome(deny, Nil, store, 1, 0)
         ELSE AuthorizeOutcome(deny, got.err, store, 1, 0)
    ELSE IF vr.err = ErrInvalidToken
    THEN AuthorizeOutcome(deny, Nil, store, 0, 0)
    ELSE AuthorizeOutcome(deny, vr.err, store, 0, 0)

\* A faulty variant: a cache hit is looked up before the write-through, so a
\* verified token costs a Get as well as a Put.
AuthorizeToken_ReadBeforeWrite(token, vr, cacheOn, secret, store, now, fault) ==
    LET deny == AuthorizeResult(FALSE, FALSE, NilVerified, Nil) IN
    IF vr.err = Nil
    THEN IF cacheOn
         THEN LET put == JetStreamTokenCachePut(
                             secret, token,
                             TokenCacheEntry(vr.vt.Username,
                                             JoinComma(vr.vt.Scopes),
                                             FormatRFC3339(now)),
                             store, now, fault) IN
              AuthorizeOutcome(AuthorizeResult(TRUE, FALSE, vr.vt, put.err),
                               Nil, put.store, 1, 1)
         ELSE AuthorizeOutcome(AuthorizeResult(TRUE, FALSE, vr.vt, Nil),
                               Nil, store, 0, 0)
    ELSE IF vr.err = ErrInvalidToken
    THEN AuthorizeOutcome(deny, Nil, store, 0, 0)
    ELSE IF cacheOn /\ isFallbackToCacheError(vr.err)
    THEN LET got == JetStreamTokenCacheGet(secret, token, store, now, fault) IN
         IF got.err = Nil
         THEN AuthorizeOutcome(AuthorizeResult(TRUE, TRUE, NilVerified, Nil),
                               Nil, store, 1, 0)
         ELSE IF got.err = ErrTokenCacheMiss
         THEN AuthorizeOutcome(deny, Nil, store, 1, 0)
         ELSE AuthorizeOutcome(deny, got.err, store, 1, 0)
    ELSE AuthorizeOutcome(deny, vr.err, store, 0, 0)

\* A faulty variant: a failed write-through turns the verified request into
\* an error.
AuthorizeToken_FailClosedOnPut(token, vr, cacheOn, secret, store, now, fault) ==
    LET deny == AuthorizeResult(FALSE, FALSE, NilVerified, Nil) IN
    IF vr.err = Nil
    THEN IF cacheOn
         THEN LET put == JetStreamTokenCachePut(
                             secret, token,
                             TokenCacheEntry(vr.vt.Username,
                                             JoinComma(vr.vt.Scopes),
                                             FormatRFC3339(now)),
                             store, now, fault) IN
              IF put.err # Nil
              THEN AuthorizeOutcome(AuthorizeResult(FALSE, FALSE, NilVerified, put.err),
                                    put.err, put.store, 0, 1)
              ELSE AuthorizeOutcome(AuthorizeResult(TRUE, FALSE, vr.vt, put.err),
                                    Nil, put.store, 0, 1)
         ELSE AuthorizeOutcome(AuthorizeResult(TRUE, FALSE, vr.vt, Nil),
                               Nil, store, 0, 0)
    ELSE IF vr.err = ErrInvalidToken
    THEN AuthorizeOutcome(deny, Nil, store, 0, 0)
    ELSE IF cacheOn /\ isFallbackToCacheError(vr.err)
    THEN LET got == JetStreamTokenCacheGet(secret, token, store, now, fault) IN
         IF got.err = Nil
         THEN AuthorizeOutcome(AuthorizeResult(TRUE, TRUE, NilVerified, Nil),
                               Nil, store, 1, 0)
         ELSE IF got.err = ErrTokenCacheMiss
         THEN AuthorizeOutcome(deny, Nil, store, 1, 0)
         ELSE AuthorizeOutcome(deny, got.err, store, 1, 0)
    ELSE AuthorizeOutcome(deny, vr.err, store, 0, 0)

\* A faulty variant: a store error on the fallback lookup is reported like a
\* miss.
AuthorizeToken_StoreErrorAsMiss(token, vr, cacheOn, secret, store, now, fault) ==
    LET deny == AuthorizeResult(FALSE, FALSE, NilVerified, Nil) IN
    IF vr.err = Nil
    THEN IF cacheOn
         THEN LET put == JetStreamTokenCachePut(
                             secret, token,
                             TokenCacheEntry(vr.vt.Username,
                                             JoinComma(vr.vt.Scopes),
                                             FormatRFC3339(now)),
                             store, now, fault) IN
              AuthorizeOutcome(AuthorizeResult(TRUE, FALSE, vr.vt, put.err),
                               Nil, put.store, 0, 1)
         ELSE AuthorizeOutcome(AuthorizeResult(TRUE, FALSE, vr.vt, Nil),
                               Nil, store, 0, 0)
    ELSE IF vr.err = ErrInvalidToken
    THEN AuthorizeOutcome(deny, Nil, store, 0, 0)
    ELSE IF cacheOn /\ isFallbackToCacheError(vr.err)
    THEN LET got == JetStreamTokenCacheGet(secret, token, store, now, fault) IN
         IF got.err = Nil
         THEN AuthorizeOutcome(AuthorizeResult(TRUE, TRUE, NilVerified, Nil),
                               Nil, store, 1, 0)
         ELSE AuthorizeOutcome(deny, Nil, store, 1, 0)
    ELSE AuthorizeOutcome(deny, vr.err, store, 0, 0)

\* A faulty variant: tokens of one shape are never looked up in the cache.
AuthorizeToken_TokenHeuristic(token, vr, cacheOn, secret, store, now, fault) ==
    LET deny == AuthorizeResult(FALSE, FALSE, NilVerified, Nil) IN
    IF vr.err = Nil
    THEN IF cacheOn
         THEN LET put == JetStreamTokenCachePut(
                             secret, token,
                             TokenCacheEntry(vr.vt.Username,
                                             JoinComma(vr.vt.Scopes),
                                             FormatRFC3339(now)),
                             store, now, fault) IN
              AuthorizeOutcome(AuthorizeResult(TRUE, FALSE, vr.vt, put.err),
                               Nil, put.store, 0, 1)
         ELSE AuthorizeOutcome(AuthorizeResult(TRUE, FALSE, vr.vt, Nil),
                               Nil, store, 0, 0)
    ELSE IF vr.err = ErrInvalidToken
    THEN AuthorizeOutcome(deny, Nil, store, 0, 0)
    ELSE IF cacheOn /\ isFallbackToCacheError(vr.err) /\ token # "glpat-b"
    THEN LET got == JetStreamTokenCacheGet(secret, token, store, now, fault) IN
         IF got.err = Nil
         THEN AuthorizeOutcome(AuthorizeResult(TRUE, TRUE, NilVerified, Nil),
                               Nil, store, 1, 0)
         ELSE IF got.err = ErrTokenCacheMiss
         THEN AuthorizeOutcome(deny, Nil, store, 1, 0)
         ELSE AuthorizeOutcome(deny, got.err, store, 1, 0)
    ELSE AuthorizeOutcome(deny, vr.err, store, 0, 0)

\* A faulty variant: a fallback hit stores the entry again, renewing its age.
AuthorizeToken_RefreshOnHit(token, vr, cacheOn, secret, store, now, fault) ==
    LET deny == AuthorizeResult(FALSE, FALSE, NilVerified, Nil) IN
    IF vr.err = Nil
    THEN IF cacheOn
         THEN LET put == JetStreamTokenCachePut(
                             secret, token,
                             TokenCacheEntry(vr.vt.Username,
                                             JoinComma(vr.vt.Scopes),
                                             FormatRFC3339(now)),
                             store, now, fault) IN
              AuthorizeOutcome(AuthorizeResult(TRUE, FALSE, vr.vt, put.err),
                               Nil, put.store, 0, 1)
         ELSE AuthorizeOutcome(AuthorizeResult(TRUE, FALSE, vr.vt, Nil),
                               Nil, store, 0, 0)
    ELSE IF vr.err = ErrInvalidToken
    THEN AuthorizeOutcome(deny, Nil, store, 0, 0)
    ELSE IF cacheOn /\ isFallbackToCacheError(vr.err)
    THEN LET got == JetStreamTokenCacheGet(secret, token, store, now, fault) IN
         IF got.err = Nil
         THEN AuthorizeOutcome(AuthorizeResult(TRUE, TRUE, NilVerified, Nil),
                               Nil,
                               KVPut(store, tokenCacheKey(token, secret).key,
                                     marshalTokenCacheEntry(got.entry), now),
                               1, 0)
         ELSE IF got.err = ErrTokenCacheMiss
         THEN AuthorizeOutcome(deny, Nil, store, 1, 0)
         ELSE AuthorizeOutcome(deny, got.err, store, 1, 0)
    ELSE AuthorizeOutcome(deny, vr.err, store, 0, 0)

\* A faulty variant: without a cache a transient failure lets the token in.
AuthorizeToken_FailOpenWithoutCache(token, vr, cacheOn, secret, store, now, fault) ==
    LET deny == AuthorizeResult(FALSE, FALSE, NilVerified, Nil) IN
    IF vr.err = Nil
    THEN IF cacheOn
         THEN LET put == JetStreamTokenCachePut(
                             secret, token,
                             TokenCacheEntry(vr.vt.Username,
                                             JoinComma(vr.vt.Scopes),
                                             FormatRFC3339(now)),
                             store, now, fault) IN
              AuthorizeOutcome(AuthorizeResult(TRUE, FALSE, vr.vt, put.err),
                               Nil, put.store, 0, 1)
         ELSE AuthorizeOutcome(AuthorizeResult(TRUE, FALSE, vr.vt, Nil),
                               Nil, store, 0, 0)
    ELSE IF vr.err = ErrInvalidToken
    THEN AuthorizeOutcome(deny, Nil, store, 0, 0)
    ELSE IF cacheOn /\ isFallbackToCacheError(vr.err)
    THEN LET got == JetStreamTokenCacheGet(secret, token, store, now, fault) IN
         IF got.err = Nil
         THEN AuthorizeOutcome(AuthorizeResult(TRUE, TRUE, NilVerified, Nil),
                               Nil, store, 1, 0)
         ELSE IF got.err = ErrTokenCacheMiss
         THEN AuthorizeOutcome(deny, Nil, store, 1, 0)
         ELSE AuthorizeOutcome(deny, got.err, store, 1, 0)
    ELSE IF ~cacheOn /\ isFallbackToCacheError(vr.err)
    THEN AuthorizeOutcome(AuthorizeResult(TRUE, TRUE, NilVerified, Nil),
                          Nil, store, 0, 0)
    ELSE AuthorizeOutcome(deny, vr.err, store, 0, 0)

\* AuthorizeToken, from the point where verifier.VerifyTokenInfo has returned
\* vr = (vt, err).  `cacheOn` is cache != nil; `fault` makes the one KV
\* request of this call fail in the store.
\* A faulty variant: a cache hit hands back the cached identity as Verified.
AuthorizeToken_VerifiedFromCache(token, vr, cacheOn, secret, store, now, fault) ==
    LET deny == AuthorizeResult(FALSE, FALSE, NilVerified, Nil) IN
    IF vr.err = Nil
    THEN IF cacheOn
         THEN LET put == JetStreamTokenCachePut(
                             secret, token,
                             TokenCacheEntry(vr.vt.Username,
                                             JoinComma(vr.vt.Scopes),
                                             FormatRFC3339(now)),
                             store, now, fault) IN
              AuthorizeOutcome(AuthorizeResult(TRUE, FALSE, vr.vt, put.err),
                               Nil, put.store, 0, 1)
         ELSE AuthorizeOutcome(AuthorizeResult(TRUE, FALSE, vr.vt, Nil),
                               Nil, store, 0, 0)
    ELSE IF vr.err = ErrInvalidToken
    THEN AuthorizeOutcome(deny, Nil, store, 0, 0)
    ELSE IF cacheOn /\ isFallbackToCacheError(vr.err)
    THEN LET got == JetStreamTokenCacheGet(secret, token, store, now, fault) IN
         IF got.err = Nil
         THEN AuthorizeOutcome(
                  AuthorizeResult(TRUE, TRUE,
                                  VerifiedToken(got.entry.Username, <<>>), Nil),
                  Nil, store, 1, 0)
         ELSE IF got.err = ErrTokenCacheMiss
         THEN AuthorizeOutcome(deny, Nil, store, 1, 0)
         ELSE AuthorizeOutcome(deny, got.err, store, 1, 0)
    ELSE AuthorizeOutcome(deny, vr.err, store, 0, 0)

AuthorizeToken(token, vr, cacheOn, secret, store, now, fault) ==
    LET deny == AuthorizeResult(FALSE, FALSE, NilVerified, Nil) IN
    IF vr.err = Nil
    THEN IF cacheOn
         THEN LET put == JetStreamTokenCachePut(
                             secret, token,
                             TokenCacheEntry(vr.vt.Username,
                                             JoinComma(vr.vt.Scopes),
                                             FormatRFC3339(now)),
                             store, now, fault) IN
              AuthorizeOutcome(AuthorizeResult(TRUE, FALSE, vr.vt, put.err),
                               Nil, put.store, 0, 1)
         ELSE AuthorizeOutcome(AuthorizeResult(TRUE, FALSE, vr.vt, Nil),
                               Nil, store, 0, 0)
    ELSE IF vr.err = ErrInvalidToken
    THEN AuthorizeOutcome(deny, Nil, store, 0, 0)
    ELSE IF cacheOn /\ isFallbackToCacheError(vr.err)
    THEN LET got == JetStreamTokenCacheGet(secret, token, store, now, fault) IN
         IF got.err = Nil
         THEN AuthorizeOutcome(AuthorizeResult(TRUE, TRUE, NilVerified, Nil),
                               Nil, store, 1, 0)
         ELSE IF got.err = ErrTokenCacheMiss
         THEN AuthorizeOutcome(deny, Nil, store, 1, 0)
         ELSE AuthorizeOutcome(deny, got.err, store, 1, 0)
    ELSE AuthorizeOutcome(deny, vr.err, store, 0, 0)

\* ------------------------------------------------------------ the verifier

\* Errors VerifyTokenInfo returns besides ErrInvalidToken.
VerifierErrors == {ErrDeadlineExceeded, ErrGitLab403}

VerifyResult(vt, err) == [vt |-> vt, err |-> err]

\* What (*GitLabClient).VerifyTokenInfo can return for a token: the empty
\* token is invalid without a call; otherwise GitLab accepts the token,
\* rejects it (401), or the last attempt's error comes back.
VerifyTokenInfo(token) ==
    IF token = ""
    THEN {VerifyResult(NilVerified, ErrInvalidToken)}
    ELSE {VerifyResult(VerifiedToken(GitLabUsername(token), GitLabScopes(token)), Nil),
          VerifyResult(NilVerified, ErrInvalidToken)}
         \cup {VerifyResult(NilVerified, e) : e \in VerifierErrors}

\* ------------------------------------------------- the verifier's retry loop

\* isUnauthorizedError: a *gitlab.ErrorResponse with status 401.
isUnauthorizedError(err) ==
    /\ err # Nil
    /\ statusCodeFromGitLabError(err).ok
    /\ statusCodeFromGitLabError(err).code = 401

\* NewGitLabClient: gitlab.retries and gitlab.retryDelaySeconds.
GitLabClient(retries, retryDelaySeconds) ==
    [retries |-> retries, retryDelaySeconds |-> retryDelaySeconds]

\* The shipped configuration: retries 2, retryDelaySeconds 1.
ConfiguredGitLabClient == GitLabClient(2, 1)

GitLabClients ==
    {GitLabClient(r, d) : r \in 0..MaxRetries, d \in {1, 2}}

\* The two entry points that share the loop.
VerifyFunctions == {"VerifyTokenInfo", "VerifyToken"}

\* What one attempt gets from GitLab: Users.CurrentUser's user and error,
\* and, when VerifyTokenInfo goes on to ask for the token's scopes,
\* GetSinglePersonalAccessToken's scopes and error.
ProviderAnswer(user, err, scopes, patErr) ==
    [user |-> user, err |-> err, scopes |-> scopes, patErr |-> patErr]

NoAnswer == ProviderAnswer(<<>>, Nil, <<>>, Nil)

\* Errors one attempt can end with.
ProviderErrors == {ErrGitLab401, ErrDeadlineExceeded, ErrGitLab503, ErrGitLab403}

ProviderAnswers(fn, token) ==
    {ProviderAnswer(GitLabUsername(token), Nil, GitLabScopes(token), Nil),
     ProviderAnswer(<<>>, Nil, <<>>, Nil)}
    \cup {ProviderAnswer(<<>>, e, <<>>, Nil) : e \in ProviderErrors}
    \cup (IF fn = "VerifyTokenInfo"
          THEN {ProviderAnswer(u, Nil, <<>>, e) :
                    u \in {GitLabUsername(token), <<>>},
                    e \in {ErrGitLab401, ErrGitLab403, ErrDeadlineExceeded}}
          ELSE {})

\* What the call has done so far, in order: attempts with their answers and
\* sleeps with their durations.
AttemptEvent(ans) == [ev |-> "attempt", ans |-> ans, d |-> 0]
SleepEvent(d) == [ev |-> "sleep", ans |-> NoAnswer, d |-> d]

\* The return values: VerifyToken's bool, VerifyTokenInfo's *VerifiedToken,
\* and the error.
VerifyReturn(ok, vt, err) == [ok |-> ok, vt |-> vt, err |-> err]

NoReturn == VerifyReturn(FALSE, NilVerified, Nil)

\* A verifier between calls.
NewVerifier(client) ==
    [pc |-> "idle", fn |-> "VerifyTokenInfo", token |-> "",
     retries |-> client.retries, delay |-> client.retryDelaySeconds,
     attempt |-> 0, lastErr |-> Nil, log |-> <<>>, ret |-> NoReturn,
     now |-> 0, spans |-> <<>>]

\* The call returns.
verifyReturns(v, log, attempt, ret) ==
    [v EXCEPT !.pc = "returned", !.log = log, !.attempt = attempt, !.ret = ret]

\* return nil, ErrInvalidToken / return false, nil
invalidReturn(fn) ==
    IF fn = "VerifyTokenInfo" THEN VerifyReturn(FALSE, NilVerified, ErrInvalidToken)
    ELSE VerifyReturn(FALSE, NilVerified, Nil)

\* A faulty variant: the empty token is sent to GitLab like any other.
startVerify_NoFastPath(v, fn, token) ==
    LET w == [v EXCEPT !.fn = fn, !.token = token, !.attempt = 0,
                       !.lastErr = Nil, !.log = <<>>, !.ret = NoReturn,
                       !.now = 0, !.spans = <<>>] IN
    IF ~(0 < w.retries + 1)
    THEN verifyReturns(w, <<>>, 0, VerifyReturn(FALSE, NilVerified, "no attempts"))
    ELSE [w EXCEPT !.pc = "calling"]

\* The entry of VerifyTokenInfo / VerifyToken up to the loop.
startVerify(v, fn, token) ==
    LET w == [v EXCEPT !.fn = fn, !.token = token, !.attempt = 0,
                       !.lastErr = Nil, !.log = <<>>, !.ret = NoReturn,
                       !.now = 0, !.spans = <<>>] IN
    IF token = "" THEN verifyReturns(w, <<>>, 0, invalidReturn(fn))
    ELSE IF ~(0 < w.retries + 1)
    THEN verifyReturns(w, <<>>, 0, VerifyReturn(FALSE, NilVerified, "no attempts"))
    ELSE [w EXCEPT !.pc = "calling"]

\* A faulty variant: the delay is also slept after the last attempt.
afterAttempt_SleepAfterLast(v, ans) ==
    LET log == Append(v.log, AttemptEvent(ans))
        maxAttempts == v.retries + 1
    IN
    IF ans.err = Nil
    THEN IF v.fn = "VerifyTokenInfo" /\ isUnauthorizedError(ans.patErr)
         THEN verifyReturns(v, log, v.attempt, invalidReturn(v.fn))
         ELSE IF ans.user = <<>>
         THEN verifyReturns(v, log, v.attempt, invalidReturn(v.fn))
         ELSE IF v.fn = "VerifyTokenInfo"
         THEN verifyReturns(v, log, v.attempt,
                  VerifyReturn(TRUE,
                               VerifiedToken(ans.user,
                                             IF ans.patErr = Nil THEN ans.scopes
                                             ELSE <<>>),
                               Nil))
         ELSE verifyReturns(v, log, v.attempt, VerifyReturn(TRUE, NilVerified, Nil))
    ELSE IF isUnauthorizedError(ans.err)
    THEN verifyReturns(v, log, v.attempt, invalidReturn(v.fn))
    ELSE IF v.attempt < maxAttempts - 1
    THEN [v EXCEPT !.log = log, !.lastErr = ans.err, !.pc = "sleeping"]
    ELSE verifyReturns([v EXCEPT !.lastErr = ans.err],
                       Append(log, SleepEvent(v.delay)), v.attempt + 1,
                       VerifyReturn(FALSE, NilVerified, ans.err))

\* A faulty variant: a 401 is retried like any other failure.
afterAttempt_RetryUnauthorized(v, ans) ==
    LET log == Append(v.log, AttemptEvent(ans))
        maxAttempts == v.retries + 1
    IN
    IF ans.err = Nil
    THEN IF v.fn = "VerifyTokenInfo" /\ isUnauthorizedError(ans.patErr)
         THEN verifyReturns(v, log, v.attempt, invalidReturn(v.fn))
         ELSE IF ans.user = <<>>
         THEN verifyReturns(v, log, v.attempt, invalidReturn(v.fn))
         ELSE IF v.fn = "VerifyTokenInfo"
         THEN verifyReturns(v, log, v.attempt,
                  VerifyReturn(TRUE,
                               VerifiedToken(ans.user,
                                             IF ans.patErr = Nil THEN ans.scopes
                                             ELSE <<>>),
                               Nil))
         ELSE verifyReturns(v, log, v.attempt, VerifyReturn(TRUE, NilVerified, Nil))
    ELSE IF v.attempt < maxAttempts - 1
    THEN [v EXCEPT !.log = log, !.lastErr = ans.err, !.pc = "sleeping"]
    ELSE IF isUnauthorizedError(ans.err)
    THEN verifyReturns(v, log, v.attempt + 1, invalidReturn(v.fn))
    ELSE verifyReturns([v EXCEPT !.lastErr = ans.err], log, v.attempt + 1,
                       VerifyReturn(FALSE, NilVerified, ans.err))

\* A faulty variant: the first failure is the one remembered and returned.
afterAttempt_KeepFirstError(v, ans) ==
    LET log == Append(v.log, AttemptEvent(ans))
        maxAttempts == v.retries + 1
    IN
    IF ans.err = Nil
    THEN IF v.fn = "VerifyTokenInfo" /\ isUnauthorizedError(ans.patErr)
         THEN verifyReturns(v, log, v.attempt, invalidReturn(v.fn))
         ELSE IF ans.user = <<>>
         THEN verifyReturns(v, log, v.attempt, invalidReturn(v.fn))
         ELSE IF v.fn = "VerifyTokenInfo"
         THEN verifyReturns(v, log, v.attempt,
                  VerifyReturn(TRUE,
                               VerifiedToken(ans.user,
                                             IF ans.patErr = Nil THEN ans.scopes
                                             ELSE <<>>),
                               Nil))
         ELSE verifyReturns(v, log, v.attempt, VerifyReturn(TRUE, NilVerified, Nil))
    ELSE IF isUnauthorizedError(ans.err)
    THEN verifyReturns(v, log, v.attempt, invalidReturn(v.fn))
    ELSE IF v.attempt < maxAttempts - 1
    THEN [v EXCEPT !.log = log,
                   !.lastErr = IF v.lastErr = Nil THEN ans.err ELSE v.lastErr,
                   !.pc = "sleeping"]
    ELSE LET first == IF v.lastErr = Nil THEN ans.err ELSE v.lastErr IN
         verifyReturns([v EXCEPT !.lastErr = first], log, v.attempt + 1,
                       VerifyReturn(FALSE, NilVerified, first))

\* A faulty variant: a failed scope lookup fails the attempt.
afterAttempt_RetryScopeFailure(v, ans) ==
    LET log == Append(v.log, AttemptEvent(ans))
        maxAttempts == v.retries + 1
    IN
    IF ans.err = Nil
    THEN IF v.fn = "VerifyTokenInfo" /\ isUnauthorizedError(ans.patErr)
         THEN verifyReturns(v, log, v.attempt, invalidReturn(v.fn))
         ELSE IF v.fn = "VerifyTokenInfo" /\ ans.patErr # Nil
         THEN IF v.attempt < maxAttempts - 1
              THEN [v EXCEPT !.log = log, !.lastErr = ans.patErr,
                             !.pc = "sleeping"]
              ELSE verifyReturns([v EXCEPT !.lastErr = ans.patErr], log,
                                 v.attempt + 1,
                                 VerifyReturn(FALSE, NilVerified, ans.patErr))
         ELSE IF ans.user = <<>>
         THEN verifyReturns(v, log, v.attempt, invalidReturn(v.fn))
         ELSE IF v.fn = "VerifyTokenInfo"
         THEN verifyReturns(v, log, v.attempt,
                  VerifyReturn(TRUE,
                               VerifiedToken(ans.user,
                                             IF ans.patErr = Nil THEN ans.scopes
                                             ELSE <<>>),
                               Nil))
         ELSE verifyReturns(v, log, v.attempt, VerifyReturn(TRUE, NilVerified, Nil))
    ELSE IF isUnauthorizedError(ans.err)
    THEN verifyReturns(v, log, v.attempt, invalidReturn(v.fn))
    ELSE IF v.attempt < maxAttempts - 1
    THEN [v EXCEPT !.log = log, !.lastErr = ans.err, !.pc = "sleeping"]
    ELSE verifyReturns([v EXCEPT !.lastErr = ans.err], log, v.attempt + 1,
                       VerifyReturn(FALSE, NilVerified, ans.err))

\* One pass through the loop body after the provider has answered: return
\* on success and on an unauthorized answer; otherwise remember the error
\* and either go to sleep before the next attempt or, after the last one,
\* leave the loop and return the error.
afterAttempt(v, ans) ==
    LET log == Append(v.log, AttemptEvent(ans))
        maxAttempts == v.retries + 1
    IN
    IF ans.err = Nil
    THEN IF v.fn = "VerifyTokenInfo" /\ isUnauthorizedError(ans.patErr)
         THEN verifyReturns(v, log, v.attempt, invalidReturn(v.fn))
         ELSE IF ans.user = <<>>
         THEN verifyReturns(v, log, v.attempt, invalidReturn(v.fn))
         ELSE IF v.fn = "VerifyTokenInfo"
         THEN verifyReturns(v, log, v.attempt,
                  VerifyReturn(TRUE,
                               VerifiedToken(ans.user,
                                             IF ans.patErr = Nil THEN ans.scopes
                                             ELSE <<>>),
                               Nil))
         ELSE verifyReturns(v, log, v.attempt, VerifyReturn(TRUE, NilVerified, Nil))
    ELSE IF isUnauthorizedError(ans.err)
    THEN verifyReturns(v, log, v.attempt, invalidReturn(v.fn))
    ELSE IF v.attempt < maxAttempts - 1
    THEN [v EXCEPT !.log = log, !.lastErr = ans.err, !.pc = "sleeping"]
    ELSE verifyReturns([v EXCEPT !.lastErr = ans.err], log, v.attempt + 1,
                       VerifyReturn(FALSE, NilVerified, ans.err))

\* timeSleep(delay) is over: the loop goes to its next attempt.
afterSleep(v) ==
    [v EXCEPT !.log = Append(@, SleepEvent(v.delay)),
              !.attempt = @ + 1,
              !.now = @ + v.delay,
              !.pc = "calling"]

\* A faulty variant: one deadline, set when the call starts, serves every
\* attempt.
attemptContext_SharedDeadline(v) ==
    [start |-> v.now, deadline |-> GitLabTimeout]

\* context.WithTimeout(context.Background(), c.timeout) at the top of the
\* loop body: the attempt's start and its deadline.
attemptContext(v) ==
    [start |-> v.now, deadline |-> v.now + GitLabTimeout]

\* The times at which an attempt under ctx can end with answer ans: GitLab
\* answers before the deadline, or the context ends the call at the deadline
\* (at once when the deadline has passed) with DeadlineExceeded.
AttemptEnds(ctx, ans) ==
    IF ctx.deadline <= ctx.start THEN
        IF ans.err = ErrDeadlineExceeded THEN {ctx.start} ELSE {}
    ELSE IF ErrDeadlineExceeded \in {ans.err, ans.patErr} THEN {ctx.deadline}
    ELSE ctx.start..(ctx.deadline - 1)

\* One attempt under its context, ending at time `end`, and the loop body
\* after it.
timedAttempt(v, ans, end) ==
    LET ctx == attemptContext(v) IN
    [afterAttempt(v, ans) EXCEPT
         !.now = end,
         !.spans = Append(v.spans, [start |-> ctx.start,
                                    deadline |-> ctx.deadline,
                                    end |-> end])]

\* --------------------------------------------------- the callout request

\* NKeys are [prefix, body]: the prefix letter names the key's role.
NoNkey == <<>>
ClientNkey == <<"U", "CLIENTKEY">>
BrokenNkey == <<"U", "garbage">>
TempNkey == <<"U", "TEMPKEY">>

\* user_nkey values a request can carry.
UserNkeys == {NoNkey, ClientNkey, BrokenNkey}

\* strings.HasPrefix(userNkey, "U")
HasPrefixU(nkey) == Len(nkey) >= 1 /\ nkey[1] = "U"

\* nkeys.IsValidPublicUserKey: the role prefix and a body that decodes.
IsValidPublicUserKey(nkey) ==
    /\ Len(nkey) = 2
    /\ nkey[1] = "U"
    /\ nkey[2] \in {"CLIENTKEY", "TEMPKEY"}

\* connect_opts.user values a client can send: any text, spaces included.
ClientUsernames == {<<"alice">>, <<"bob">>, <<"mal", " ", "lory">>}

ServerID == "NSERVER1"
ReplySubject == "_INBOX.reply"

AuthorizationRequestClaims(userNkey, username, password) ==
    [UserNkey |-> userNkey, ServerID |-> ServerID,
     Username |-> username, Password |-> password]

NoRequest == AuthorizationRequestClaims(NoNkey, <<>>, "")

\* The server's curve public key, as the Nats-Server-Xkey header carries it.
ServerXkey == "XSERVERKEY"

\* Messages on $SYS.REQ.USER.AUTH: undecodable bytes, or encoded claims.  A
\* plain message has no Nats-Server-Xkey header and its data is the request
\* itself.
Msg(wellFormed, claims) ==
    [Reply |-> ReplySubject, Xkey |-> "", sealed |-> FALSE,
     wellFormed |-> wellFormed, claims |-> claims]

\* A message of a server that encrypts its callout requests: the header
\* names the server's key and the data is the request sealed for the
\* responder's curve key.
SealedMsg(xkey, claims) ==
    [Reply |-> ReplySubject, Xkey |-> xkey, sealed |-> TRUE,
     wellFormed |-> TRUE, claims |-> claims]

NoMsg == Msg(FALSE, NoRequest)

Msgs ==
    {Msg(FALSE, NoRequest)}
    \cup {Msg(TRUE, AuthorizationRequestClaims(k, u, t)) :
              k \in UserNkeys, u \in ClientUsernames, t \in Tokens}
    \cup {SealedMsg(ServerXkey, AuthorizationRequestClaims(ClientNkey, u, "glpat-a")) :
              u \in {<<"alice">>, <<"bob">>}}

\* jwt.DecodeAuthorizationRequestClaims(string(msg.Data)): the data is taken
\* as it arrived; sealed data is not a JWT.
DecodeAuthorizationRequestClaims(msg) ==
    IF msg.wellFormed /\ ~msg.sealed THEN [rc |-> msg.claims, err |-> Nil]
    ELSE [rc |-> NoRequest, err |-> "jwt: invalid request"]

\* ------------------------------------------------- permission templates

UsernamePlaceholder == "{{.Username}}"

\* nats.permissions.* of the configuration: each pattern is a sequence of
\* literal atoms and template actions.
PermissionsConfig ==
    [pubAllow |-> << <<"_INBOX.>">>, <<"user.", "{{.Username}}", ".>">> >>,
     pubDeny |-> << <<"private.>">> >>,
     subAllow |-> << <<"_INBOX.>">>, <<"user.", "{{.Username}}">>, <<"global.>">> >>,
     subDeny |-> << <<"user.!", "{{.Username}}", ".private.>">> >>]

\* template.Parse fails on an action that is not closed.
TemplateParses(tmpl) == \A n \in 1..Len(tmpl) : tmpl[n] # "{{"

\* The actions that occur in patterns: two field references and one action
\* that prints a constant.
PrintAction == "{{print 1}}"

IsAction(atom) == atom \in {"{{.Username}}", "{{.Email}}", PrintAction}

\* tmpl.Execute fails on a field TemplateData does not have.
TemplateExecutes(tmpl) ==
    \A n \in 1..Len(tmpl) :
        IsAction(tmpl[n]) => tmpl[n] \in {UsernamePlaceholder, PrintAction}

RECURSIVE ExecuteTemplate(_, _)
ExecuteTemplate(tmpl, username) ==
    IF Len(tmpl) = 0 THEN <<>>
    ELSE (IF tmpl[1] = UsernamePlaceholder THEN username
          ELSE IF tmpl[1] = PrintAction THEN <<"1">>
          ELSE <<tmpl[1]>>)
         \o ExecuteTemplate(Tail(tmpl), username)

\* A faulty variant: a pattern that fails to parse or to execute is dropped.
processPermissionTemplate_DropOnFailure(subjectTemplate, username) ==
    IF ~TemplateParses(subjectTemplate) THEN <<>>
    ELSE IF ~TemplateExecutes(subjectTemplate) THEN <<>>
    ELSE ExecuteTemplate(subjectTemplate, username)

\* A faulty variant: every subject is put under the user's own namespace.
processPermissionTemplate_UserNamespace(subjectTemplate, username) ==
    IF ~TemplateParses(subjectTemplate) THEN subjectTemplate
    ELSE IF ~TemplateExecutes(subjectTemplate) THEN subjectTemplate
    ELSE username \o <<".">> \o ExecuteTemplate(subjectTemplate, username)

processPermissionTemplate(subjectTemplate, username) ==
    IF ~TemplateParses(subjectTemplate) THEN subjectTemplate
    ELSE IF ~TemplateExecutes(subjectTemplate) THEN subjectTemplate
    ELSE ExecuteTemplate(subjectTemplate, username)

\* jwt.StringList.Add: appends a subject that is not empty and not yet there.
StringListAdd(list, subject) ==
    IF subject = <<>> \/ \E n \in 1..Len(list) : list[n] = subject
    THEN list
    ELSE Append(list, subject)

\* One of the four loops over a configured pattern list.
RECURSIVE AddProcessed(_, _, _)
AddProcessed(list, patterns, username) ==
    IF Len(patterns) = 0 THEN list
    ELSE AddProcessed(
             StringListAdd(list, processPermissionTemplate(patterns[1], username)),
             Tail(patterns), username)

Permissions(pubAllow, pubDeny, subAllow, subDeny) ==
    [pubAllow |-> pubAllow, pubDeny |-> pubDeny,
     subAllow |-> subAllow, subDeny |-> subDeny]

NoPermissions == Permissions(<<>>, <<>>, <<>>, <<>>)

\* The permissions handleAuthRequest puts into the user claims.
BuildPermissionsFrom(config, username) ==
    Permissions(AddProcessed(<<>>, config.pubAllow, username),
                AddProcessed(<<>>, config.pubDeny, username),
                AddProcessed(<<>>, config.subAllow, username),
                AddProcessed(<<>>, config.subDeny, username))

BuildPermissions(username) == BuildPermissionsFrom(PermissionsConfig, username)

\* ---------------------------------------------------------- claims and JWTs

\* jwt.Subject.Validate: a subject is not empty and has no spaces.
SubjectValid(subject) ==
    /\ subject # <<>>
    /\ \A n \in 1..Len(subject) : subject[n] # " "

AllSubjects(perms) ==
    perms.pubAllow \o perms.pubDeny \o perms.subAllow \o perms.subDeny

\* uc.Validate(vr); len(vr.Errors())
ValidationErrors(perms) ==
    Cardinality({n \in 1..Len(AllSubjects(perms)) : ~SubjectValid(AllSubjects(perms)[n])})

\* A user JWT; the empty string is [empty |-> TRUE].
UserJwt(subject, name, perms) ==
    [empty |-> FALSE, Subject |-> subject, Name |-> name, Permissions |-> perms]

EmptyJwt == [empty |-> TRUE, Subject |-> NoNkey, Name |-> <<>>,
             Permissions |-> NoPermissions]

\* uc.Encode(issuerKeyPair): the subject must be a user public key, and the
\* issuer key must be able to sign.
EncodeUserClaims(userNkey, name, perms, signFault) ==
    IF ~IsValidPublicUserKey(userNkey) \/ signFault
    THEN [jwt |-> EmptyJwt, err |-> "jwt: encode failed"]
    ELSE [jwt |-> UserJwt(userNkey, name, perms), err |-> Nil]

\* A signed authorization response on its way to the reply subject; the
\* data published is the encoded token itself ([]byte(token)), sealed for
\* nobody.
ResponseMsg(replySubject, subject, audience, jwt, errMsg) ==
    [To |-> replySubject, Subject |-> subject, Audience |-> audience,
     Jwt |-> jwt, Error |-> errMsg, SignedBy |-> "issuer", SealedFor |-> ""]

\* What can go wrong while replying.
ReplyFaults == {"none", "keygen", "sign", "publish"}

Replied(msgs, failed) == [msgs |-> msgs, failed |-> failed]

\* respondMsg: the messages it publishes (one or none), and what stopped it.
\* A faulty variant: when encoding fails the claims go out unsigned.
respondMsg_PublishUnsigned(replySubject, userNkey, serverId, userJwt, errMsg, fault) ==
    LET needTemp == userNkey = NoNkey \/ ~HasPrefixU(userNkey)
        subject == IF needTemp THEN TempNkey ELSE userNkey
        audience == IF serverId # "" THEN serverId ELSE ""
        m == ResponseMsg(replySubject, subject, audience, userJwt, errMsg)
    IN
    IF needTemp /\ fault = "keygen" THEN Replied(<<>>, "keygen")
    ELSE IF ~IsValidPublicUserKey(subject) \/ fault = "sign"
    THEN Replied(<<[m EXCEPT !.SignedBy = ""]>>, "sign")
    ELSE IF fault = "publish" THEN Replied(<<>>, "publish")
    ELSE Replied(<<m>>, "")

respondMsg(replySubject, userNkey, serverId, userJwt, errMsg, fault) ==
    LET needTemp == userNkey = NoNkey \/ ~HasPrefixU(userNkey)
        subject == IF needTemp THEN TempNkey ELSE userNkey
        audience == IF serverId # "" THEN serverId ELSE ""
    IN
    IF needTemp /\ fault = "keygen" THEN Replied(<<>>, "keygen")
    ELSE IF ~IsValidPublicUserKey(subject) \/ fault = "sign"
    THEN Replied(<<>>, "sign")
    ELSE IF fault = "publish" THEN Replied(<<>>, "publish")
    ELSE Replied(<<ResponseMsg(replySubject, subject, audience, userJwt, errMsg)>>,
                 "")

\* A faulty variant: the decoder's error text is sent back.
handleDecodeFailure_EchoError(msg, fault) ==
    respondMsg(msg.Reply, NoNkey, "", EmptyJwt,
               DecodeAuthorizationRequestClaims(msg).err, fault)

\* handleAuthRequest when the request cannot be decoded.
handleDecodeFailure(msg, fault) ==
    respondMsg(msg.Reply, NoNkey, "", EmptyJwt, "invalid request format", fault)

\* A faulty variant: the check of result.Allow is missing.
handleAuthorized_NoDenyCheck(msg, rc, res, err, fault) ==
    LET userNkey == rc.UserNkey
        serverId == rc.ServerID
        username == rc.Username
    IN
    IF err # Nil
    THEN respondMsg(msg.Reply, userNkey, serverId, EmptyJwt,
                    "authentication error", fault)
    ELSE LET perms == BuildPermissions(username) IN
         IF ValidationErrors(perms) > 0
         THEN respondMsg(msg.Reply, userNkey, serverId, EmptyJwt,
                         "error validating claims", fault)
         ELSE LET enc == EncodeUserClaims(userNkey, username, perms,
                                          fault = "sign") IN
              IF enc.err # Nil
              THEN respondMsg(msg.Reply, userNkey, serverId, EmptyJwt,
                              "error encoding user JWT", fault)
              ELSE respondMsg(msg.Reply, userNkey, serverId, enc.jwt, "", fault)

\* A faulty variant: the claim-validation failure returns without replying.
handleAuthorized_SilentValidation(msg, rc, res, err, fault) ==
    LET userNkey == rc.UserNkey
        serverId == rc.ServerID
        username == rc.Username
    IN
    IF err # Nil
    THEN respondMsg(msg.Reply, userNkey, serverId, EmptyJwt,
                    "authentication error", fault)
    ELSE IF ~res.Allow
    THEN respondMsg(msg.Reply, userNkey, serverId, EmptyJwt,
                    "invalid credentials", fault)
    ELSE LET perms == BuildPermissions(username) IN
         IF ValidationErrors(perms) > 0
         THEN Replied(<<>>, "")
         ELSE LET enc == EncodeUserClaims(userNkey, username, perms,
                                          fault = "sign") IN
              IF enc.err # Nil
              THEN respondMsg(msg.Reply, userNkey, serverId, EmptyJwt,
                              "error encoding user JWT", fault)
              ELSE respondMsg(msg.Reply, userNkey, serverId, enc.jwt, "", fault)

\* handleAuthRequest from the point where AuthorizeToken has returned
\* (res, err) for the decoded request rc.
handleAuthorized(msg, rc, res, err, fault) ==
    LET userNkey == rc.UserNkey
        serverId == rc.ServerID
        username == rc.Username
    IN
    IF err # Nil
    THEN respondMsg(msg.Reply, userNkey, serverId, EmptyJwt,
                    "authentication error", fault)
    ELSE IF ~res.Allow
    THEN respondMsg(msg.Reply, userNkey, serverId, EmptyJwt,
                    "invalid credentials", fault)
    ELSE LET perms == BuildPermissions(username) IN
         IF ValidationErrors(perms) > 0
         THEN respondMsg(msg.Reply, userNkey, serverId, EmptyJwt,
                         "error validating claims", fault)
         ELSE LET enc == EncodeUserClaims(userNkey, username, perms,
                                          fault = "sign") IN
              IF enc.err # Nil
              THEN respondMsg(msg.Reply, userNkey, serverId, EmptyJwt,
                              "error encoding user JWT", fault)
              ELSE respondMsg(msg.Reply, userNkey, serverId, enc.jwt, "", fault)

\* ----------------------------------------------------------- log records

\* A record written through slog: its message, the string values of its
\* attributes (errors, key prefixes, error messages) and the text values
\* (usernames, keys, subjects).
LogRecord(message, strs, texts) ==
    [message |-> message, strs |-> strs, texts |-> texts]

\* keyPrefix in Get and Put: the first twelve characters of the derived key,
\* the whole key when it is not longer (the digests here are eight long).
keyPrefix(key) == key

\* What VerifyTokenInfo logs on the way to returning vr.
VerifyTokenInfoLog(token, vr) ==
    {LogRecord("Verifying GitLab token", {}, {})}
    \cup (IF token = ""
          THEN {LogRecord("Empty token provided", {}, {})}
          ELSE IF vr.err = Nil
          THEN {LogRecord("GitLab token verification successful", {},
                          {vr.vt.Username, vr.vt.Scopes})}
          ELSE IF vr.err = ErrInvalidToken
          THEN {LogRecord("GitLab token validation failed", {ErrGitLab401}, {})}
          ELSE {LogRecord("GitLab API call failed, retrying", {vr.err}, {}),
                LogRecord("Error calling GitLab API after all retries",
                          {vr.err}, {})})

\* What (*JetStreamTokenCache).Get and Put log for the one cache operation
\* of a call that ended with outcome o.
JetStreamTokenCacheLog(secret, token, o) ==
    LET k == tokenCacheKey(token, secret) IN
    IF k.err # Nil \/ o.gets + o.puts = 0 THEN {}
    ELSE IF o.puts = 1
    THEN IF o.res.CacheWriteErr # Nil
         THEN {LogRecord("Token cache put failed",
                         {keyPrefix(k.key), o.res.CacheWriteErr}, {})}
         ELSE {LogRecord("Token cache put ok", {keyPrefix(k.key)}, {})}
    ELSE IF o.res.FromCache
    THEN {LogRecord("Token cache hit", {keyPrefix(k.key)}, {})}
    ELSE IF o.err = Nil
    THEN {LogRecord("Token cache miss", {keyPrefix(k.key)}, {})}
    ELSE {LogRecord("Token cache get failed", {keyPrefix(k.key), o.err}, {})}

\* What respondMsg logs.
respondMsgLog(userNkey, errMsg, fault) ==
    LET needTemp == userNkey = NoNkey \/ ~HasPrefixU(userNkey)
        subject == IF needTemp THEN TempNkey ELSE userNkey
        warn == IF needTemp
                THEN {LogRecord("Invalid userNkey, generating temporary one",
                                {}, {userNkey})}
                ELSE {}
    IN
    warn \cup
    (IF needTemp /\ fault = "keygen"
     THEN {LogRecord("Failed to generate temporary NKey", {"nkeys: failed"}, {})}
     ELSE IF ~IsValidPublicUserKey(subject) \/ fault = "sign"
     THEN {LogRecord("Failed to encode response JWT", {"jwt: encode failed"}, {})}
     ELSE IF fault = "publish"
     THEN {LogRecord("Failed to publish response", {"nats: connection closed"}, {})}
     ELSE IF errMsg = ""
     THEN {LogRecord("Sent successful auth response", {}, {})}
     ELSE {LogRecord("Sent error auth response", {errMsg}, {})})

\* What the permission loops and processPermissionTemplate log.
PermissionLog(username) ==
    UNION {UNION {{LogRecord("Added permission", {},
                             {processPermissionTemplate(PermissionsConfig[l][n],
                                                        username)}),
                   LogRecord("Processed permission template", {},
                             {PermissionsConfig[l][n],
                              processPermissionTemplate(PermissionsConfig[l][n],
                                                        username)})} :
                      n \in 1..Len(PermissionsConfig[l])} :
               l \in {"pubAllow", "pubDeny", "subAllow", "subDeny"}}

\* What handleAuthRequest logs when the message does not decode.
handleDecodeFailureLog(msg, fault) ==
    {LogRecord("Received auth request", {}, {}),
     LogRecord("Failed to decode auth request",
               {DecodeAuthorizationRequestClaims(msg).err}, {})}
    \cup respondMsgLog(NoNkey, "invalid request format", fault)

\* A faulty variant: the connect options are logged whole.
handleAuthorizedLog_LogsPassword(msg, rc, res, err, fault) ==
    {LogRecord("Processing auth request", {rc.Password}, {rc.Username})}
    \cup respondMsgLog(rc.UserNkey, "", fault)

\* What handleAuthRequest logs from the decoded request on, AuthorizeToken
\* having returned (res, err).
handleAuthorizedLog(msg, rc, res, err, fault) ==
    LET userNkey == rc.UserNkey
        username == rc.Username
        base == {LogRecord("Received auth request", {}, {}),
                 LogRecord("Processing auth request", {}, {username})}
        written == IF res.CacheWriteErr # Nil
                   THEN {LogRecord("Failed to write token cache",
                                   {res.CacheWriteErr}, {})}
                   ELSE {}
    IN
    IF err # Nil
    THEN base \cup {LogRecord("Error authorizing token", {err}, {})}
              \cup respondMsgLog(userNkey, "authentication error", fault)
    ELSE IF ~res.Allow
    THEN base \cup written
              \cup {LogRecord("Authentication failed", {}, {username})}
              \cup respondMsgLog(userNkey, "invalid credentials", fault)
    ELSE LET perms == BuildPermissions(username)
             ok == base \cup written
                        \cup {LogRecord("Authentication successful", {}, {username})}
                        \cup PermissionLog(username)
         IN
         IF ValidationErrors(perms) > 0
         THEN ok \cup {LogRecord("Error validating user claims",
                                 {"subject cannot contain spaces"}, {})}
                 \cup respondMsgLog(userNkey, "error validating claims", fault)
         ELSE LET enc == EncodeUserClaims(userNkey, username, perms,
                                          fault = "sign") IN
              IF enc.err # Nil
              THEN ok \cup {LogRecord("Error encoding user JWT", {enc.err}, {})}
                      \cup respondMsgLog(userNkey, "error encoding user JWT", fault)
              ELSE ok \cup respondMsgLog(userNkey, "", fault)

\* ------------------------------------------------------------------- state

VARIABLES
    cfg,        \* per instance: [cacheOn, secret, xKey], fixed at startup
    clock,      \* the wall clock, in seconds
    kv,         \* the shared KV bucket: key -> [value, storedAt]
    pc,         \* per instance: where its current request stands
    msg,        \* per instance: the callout message being handled
    token,      \* per instance: the token handed to AuthorizeToken
    vres,       \* per instance: what VerifyTokenInfo returned
    out,        \* per instance: what AuthorizeToken returned
    replies,    \* per instance: what was published for the current request
    rejected,   \* tokens GitLab rejected and has not accepted since
    ver,        \* a GitLabClient and where its current verify call stands
    inbox,      \* requests the subscription holds for its callback
    tpl         \* a permissions configuration and what it expands to

vars ==
    <<cfg, clock, kv, pc, msg, token, vres, out, replies, rejected, ver, inbox,
      tpl, bucket>>

NoVerifyResult == VerifyResult(NilVerified, Nil)

NoOutcome ==
    AuthorizeOutcome(AuthorizeResult(FALSE, FALSE, NilVerified, Nil), Nil, <<>>, 0, 0)

NoReplies == Replied(<<>>, "")

\* Startup configurations: the cache is optional (token_cache.enabled), and
\* so is the curve keypair (xKeySeed # "").
Configs == [cacheOn : BOOLEAN, secret : {SharedSecret}, xKey : BOOLEAN]

\* Patterns an operator may configure: plain, with the username, with a
\* constant action, with a field TemplateData lacks, and with an action that
\* is not closed (without and with a space inside).
TemplatePatterns ==
    { <<"_INBOX.>">>,
      <<"user.", "{{.Username}}", ".>">>,
      <<"{{.Username}}">>,
      <<"v", "{{print 1}}", ".>">>,
      <<"user.", "{{.Email}}">>,
      <<"user.", "{{", ".Username">>,
      <<"user.", "{{", " ", ".Username">> }

PatternLists ==
    {<<>>} \cup {<<p>> : p \in TemplatePatterns}
           \cup {<<p, q>> : p \in TemplatePatterns, q \in TemplatePatterns}

\* Configurations that vary one allow list and one deny list.
TemplateConfigs ==
    {[PermissionsConfig EXCEPT !.pubAllow = a, !.subDeny = d] :
         a \in PatternLists, d \in {<<>>} \cup {<<p>> : p \in TemplatePatterns}}

\* rc.ConnectOptions.Username is whatever the client sent.
TemplateUsernames ==
    {<<>>, <<"alice">>, <<"mal", " ", "lory">>, <<"a", "{{.Username}}">>}

TemplateRun(config, username) ==
    [stage |-> "configured", config |-> config, username |-> username,
     perms |-> NoPermissions, again |-> NoPermissions]

ConfiguredRun == TemplateRun(PermissionsConfig, <<>>)

\* The state after construction, for a set of deployments.
InitBucket(deployments, clients, runs, buckets) ==
    /\ bucket \in buckets
    /\ tpl \in runs
    /\ cfg \in deployments
    /\ clock = 0
    /\ kv = <<>>
    /\ pc = [i \in Instances |-> "idle"]
    /\ msg = [i \in Instances |-> NoMsg]
    /\ token = [i \in Instances |-> ""]
    /\ vres = [i \in Instances |-> NoVerifyResult]
    /\ out = [i \in Instances |-> NoOutcome]
    /\ replies = [i \in Instances |-> NoReplies]
    /\ rejected = {}
    /\ ver \in {NewVerifier(c) : c \in clients}
    /\ inbox = <<>>

\* The bucket was missing at startup and was created with the configured TTL.
InitWith(deployments, clients, runs) ==
    InitBucket(deployments, clients, runs,
               {NewJetStreamTokenCache(FALSE, e, StoreTTL) : e \in ExistingBuckets})

InitState(deployments, clients) == InitWith(deployments, clients, {ConfiguredRun})

\* Callers of AuthorizeToken with their caches; no NATS client around them.
Init ==
    InitState({c \in [Instances -> Configs] : \A i \in Instances : ~c[i].xKey},
              {ConfiguredGitLabClient})

\* A caller hands a token to AuthorizeToken on instance i.
Call(i) ==
    /\ pc[i] \in {"idle", "returned"}
    /\ \E t \in Tokens : token' = [token EXCEPT ![i] = t]
    /\ pc' = [pc EXCEPT ![i] = "verifying"]
    /\ vres' = [vres EXCEPT ![i] = NoVerifyResult]
    /\ out' = [out EXCEPT ![i] = NoOutcome]
    /\ UNCHANGED <<bucket, tpl, ver, inbox, cfg, clock, kv, msg, replies, rejected>>

\* verifier.VerifyTokenInfo(token) returns.
Verify(i) ==
    /\ pc[i] = "verifying"
    /\ \E vr \in VerifyTokenInfo(token[i]) :
         /\ vres' = [vres EXCEPT ![i] = vr]
         /\ rejected' = IF vr.err = Nil THEN rejected \ {token[i]}
                        ELSE IF vr.err = ErrInvalidToken /\ token[i] # ""
                        THEN rejected \cup {token[i]}
                        ELSE rejected
    /\ pc' = [pc EXCEPT ![i] = "verified"]
    /\ UNCHANGED <<bucket, tpl, ver, inbox, cfg, clock, kv, msg, token, out, replies>>

\* The rest of AuthorizeToken: the decision and its one cache operation.
Authorize(i) ==
    /\ pc[i] = "verified"
    /\ \E fault \in BOOLEAN :
         LET o == AuthorizeToken(token[i], vres[i], cfg[i].cacheOn,
                                 cfg[i].secret, kv, clock, fault) IN
         /\ out' = [out EXCEPT ![i] = [o EXCEPT !.store = <<>>]]
         /\ kv' = o.store
    /\ pc' = [pc EXCEPT ![i] = "returned"]
    /\ UNCHANGED <<bucket, tpl, ver, inbox, cfg, clock, msg, token, vres, replies, rejected>>

\* A faulty variant: a provisional reply goes out before the verifier is
\* called.
handleAuthRequest_ReplyFirst(i, m) ==
    /\ pc[i] \in {"idle", "done"}
    /\ LET d == DecodeAuthorizationRequestClaims(m) IN
         /\ msg' = [msg EXCEPT ![i] = m]
         /\ \/ /\ d.err # Nil
               /\ \E fault \in ReplyFaults :
                    replies' = [replies EXCEPT ![i] = handleDecodeFailure(m, fault)]
               /\ token' = [token EXCEPT ![i] = ""]
               /\ pc' = [pc EXCEPT ![i] = "done"]
            \/ /\ d.err = Nil
               /\ replies' = [replies EXCEPT ![i] =
                                 respondMsg(m.Reply, d.rc.UserNkey, d.rc.ServerID,
                                            EmptyJwt, "authentication error",
                                            "none")]
               /\ token' = [token EXCEPT ![i] = d.rc.Password]
               /\ pc' = [pc EXCEPT ![i] = "verifying"]
    /\ vres' = [vres EXCEPT ![i] = NoVerifyResult]
    /\ out' = [out EXCEPT ![i] = NoOutcome]
    /\ UNCHANGED <<bucket, tpl, ver, cfg, clock, kv, rejected>>

\* handleAuthRequest starts on message m: it decodes it and either replies
\* at once (decode failure) or goes on to AuthorizeToken.  The subscription
\* calls it for one message at a time: the callback of the message before
\* has returned.
handleAuthRequest(i, m) ==
    /\ pc[i] \in {"idle", "done"}
    /\ LET d == DecodeAuthorizationRequestClaims(m) IN
         /\ msg' = [msg EXCEPT ![i] = m]
         /\ \/ /\ d.err # Nil
               /\ \E fault \in ReplyFaults :
                    replies' = [replies EXCEPT ![i] = handleDecodeFailure(m, fault)]
               /\ token' = [token EXCEPT ![i] = ""]
               /\ pc' = [pc EXCEPT ![i] = "done"]
            \/ /\ d.err = Nil
               /\ replies' = [replies EXCEPT ![i] = NoReplies]
               /\ token' = [token EXCEPT ![i] = d.rc.Password]
               /\ pc' = [pc EXCEPT ![i] = "verifying"]
    /\ vres' = [vres EXCEPT ![i] = NoVerifyResult]
    /\ out' = [out EXCEPT ![i] = NoOutcome]
    /\ UNCHANGED <<bucket, tpl, ver, cfg, clock, kv, rejected>>

\* A request arrives while the callback is free and is handled at once.
Receive(i) ==
    /\ \E m \in Msgs : handleAuthRequest(i, m)
    /\ UNCHANGED inbox

\* Requests a server sends while the callback may be busy.
SubscriptionMsgs ==
    {NoMsg}
    \cup {Msg(TRUE, AuthorizationRequestClaims(ClientNkey, <<"alice">>, t)) :
              t \in {"glpat-a", "glpat-b"}}

\* The server publishes a request on $SYS.REQ.USER.AUTH: the client library
\* queues it for the subscription.
Deliver ==
    /\ Len(inbox) < MaxPending
    /\ \E m \in SubscriptionMsgs : inbox' = Append(inbox, m)
    /\ UNCHANGED <<bucket, tpl, ver, cfg, clock, kv, pc, msg, token, vres, out, replies, rejected>>

\* The subscription hands its oldest request to the callback.
Dispatch(i) ==
    /\ inbox # <<>>
    /\ handleAuthRequest(i, Head(inbox))
    /\ inbox' = Tail(inbox)

\* VerifyTokenInfo or VerifyToken is called with a token.
VStart ==
    /\ ver.pc \in {"idle", "returned"}
    /\ \E fn \in VerifyFunctions : \E t \in Tokens : ver' = startVerify(ver, fn, t)
    /\ UNCHANGED <<bucket, tpl, inbox, cfg, clock, kv, pc, msg, token, vres, out, replies, rejected>>

\* GitLab answers the attempt, or the attempt's timeout ends it.
VAttempt ==
    /\ ver.pc = "calling"
    /\ \E ans \in ProviderAnswers(ver.fn, ver.token) :
         \E end \in AttemptEnds(attemptContext(ver), ans) :
             ver' = timedAttempt(ver, ans, end)
    /\ UNCHANGED <<bucket, tpl, inbox, cfg, clock, kv, pc, msg, token, vres, out, replies, rejected>>

\* timeSleep(delay) returns.
VSleep ==
    /\ ver.pc = "sleeping"
    /\ ver' = afterSleep(ver)
    /\ UNCHANGED <<bucket, tpl, inbox, cfg, clock, kv, pc, msg, token, vres, out, replies, rejected>>

\* handleAuthRequest after AuthorizeToken: permissions, user JWT, reply.
Respond(i) ==
    /\ pc[i] = "returned"
    /\ \E fault \in ReplyFaults :
         replies' = [replies EXCEPT ![i] =
                        handleAuthorized(msg[i],
                                         DecodeAuthorizationRequestClaims(msg[i]).rc,
                                         out[i].res, out[i].err, fault)]
    /\ pc' = [pc EXCEPT ![i] = "done"]
    /\ UNCHANGED <<bucket, tpl, ver, inbox, cfg, clock, kv, msg, token, vres, out, rejected>>

\* Time passes.
Tick ==
    /\ clock < MaxTime
    /\ clock' = clock + 1
    /\ UNCHANGED <<bucket, tpl, ver, inbox, cfg, kv, pc, msg, token, vres, out, replies, rejected>>

\* AuthorizeToken called on instances that share the bucket.
Next ==
    \/ \E i \in Instances : Call(i)
    \/ \E i \in Instances : Verify(i)
    \/ \E i \in Instances : Authorize(i)
    \/ Tick

Spec == Init /\ [][Next]_vars

\* Errors of every class isFallbackToCacheError distinguishes.
ClassifiedErrors ==
    {ErrDeadlineExceeded, ErrDialRefused, ErrHeaderTimeout, ErrResolverTemporary,
     ErrCertificate, ErrCanceled, ErrGitLab500, ErrGitLab503, ErrGitLab403,
     ErrGitLab404, ErrGitLab429, ErrKVUnavailable}

\* A GitLabVerifier (the interface AuthorizeToken takes) fails with any
\* error.
VerifyFailing(i) ==
    /\ pc[i] = "verifying"
    /\ \E e \in ClassifiedErrors :
         vres' = [vres EXCEPT ![i] = VerifyResult(NilVerified, e)]
    /\ pc' = [pc EXCEPT ![i] = "verified"]
    /\ UNCHANGED <<bucket, tpl, ver, inbox, cfg, clock, kv, msg, token, out, replies,
                   rejected>>

\* One caller of AuthorizeToken whose verifier can fail in every way.
NextClassifier ==
    \/ Call("A")
    \/ Verify("A")
    \/ VerifyFailing("A")
    \/ Authorize("A")
    \/ Tick

SpecClassifier == Init /\ [][NextClassifier]_vars

\* One responder handling callout requests one after the other.
NextResponder ==
    \/ Receive("A")
    \/ Verify("A")
    \/ Authorize("A")
    \/ Respond("A")
    \/ Tick

InitResponder ==
    InitState({c \in [Instances -> Configs] : c["B"] = c["A"]},
              {ConfiguredGitLabClient})

SpecResponder == InitResponder /\ [][NextResponder]_vars

\* Another client of the NATS account writes to the bucket under a key of
\* the cache: bytes that are not JSON, or a JSON object of another shape.
ForeignPut ==
    /\ \E b \in {NotJSON, ForeignObject} :
         kv' = KVPut(kv, tokenCacheKey("glpat-a", SharedSecret).key, b, clock)
    /\ UNCHANGED <<bucket, tpl, ver, inbox, cfg, clock, pc, msg, token, vres, out, replies,
                   rejected>>

\* The responder on a bucket that has a second writer.
NextForeignWriter ==
    \/ Receive("A")
    \/ Verify("A")
    \/ Authorize("A")
    \/ Respond("A")
    \/ Tick
    \/ ForeignPut

InitForeignWriter ==
    InitState({c \in [Instances -> Configs] :
                   \A i \in Instances : c[i].cacheOn /\ ~c[i].xKey},
              {ConfiguredGitLabClient})

SpecForeignWriter == InitForeignWriter /\ [][NextForeignWriter]_vars

\* One caller of AuthorizeToken on an instance whose bucket was either created
\* at startup or found as it stood under the configured name.
NextExistingBucket ==
    \/ Call("A")
    \/ Verify("A")
    \/ Authorize("A")
    \/ Tick

InitExistingBucket ==
    InitBucket({c \in [Instances -> Configs] :
                    \A i \in Instances : c[i].cacheOn /\ ~c[i].xKey},
               {ConfiguredGitLabClient},
               {ConfiguredRun},
               {NewJetStreamTokenCache(f, e, StoreTTL) :
                    f \in BOOLEAN, e \in ExistingBuckets})

SpecExistingBucket == InitExistingBucket /\ [][NextExistingBucket]_vars

\* One GitLabClient serving verify calls one after the other.
NextVerifier ==
    \/ VStart
    \/ VAttempt
    \/ VSleep

InitVerifier ==
    InitState({c \in [Instances -> Configs] :
                   \A i \in Instances : ~c[i].xKey /\ ~c[i].cacheOn},
              GitLabClients)

\* Every attempt ends (each runs under context.WithTimeout) and every sleep
\* ends.
SpecVerifier ==
    InitVerifier /\ [][NextVerifier]_vars /\ WF_vars(VAttempt) /\ WF_vars(VSleep)

\* One responder behind its subscription's queue.
NextSubscription ==
    \/ Deliver
    \/ Dispatch("A")
    \/ Verify("A")
    \/ Authorize("A")
    \/ Respond("A")

SpecSubscription == InitResponder /\ [][NextSubscription]_vars

\* The permission loops of handleAuthRequest, run for one request.
Expand ==
    /\ tpl.stage = "configured"
    /\ tpl' = [tpl EXCEPT !.stage = "expanded",
                          !.perms = BuildPermissionsFrom(tpl.config, tpl.username)]
    /\ UNCHANGED <<bucket, cfg, clock, kv, pc, msg, token, vres, out, replies, rejected,
                   ver, inbox>>

\* The same loops run over their own output, as a later request would if the
\* expanded subjects were configured as patterns.
ExpandAgain ==
    /\ tpl.stage = "expanded"
    /\ tpl' = [tpl EXCEPT !.stage = "reexpanded",
                          !.again = BuildPermissionsFrom(tpl.perms, tpl.username)]
    /\ UNCHANGED <<bucket, cfg, clock, kv, pc, msg, token, vres, out, replies, rejected,
                   ver, inbox>>

NextTemplate ==
    \/ Expand
    \/ ExpandAgain

InitTemplate ==
    InitWith({c \in [Instances -> Configs] :
                  \A i \in Instances : ~c[i].xKey /\ ~c[i].cacheOn},
             {ConfiguredGitLabClient},
             {TemplateRun(c, u) : c \in TemplateConfigs, u \in TemplateUsernames})

SpecTemplate == InitTemplate /\ [][NextTemplate]_vars

\* ------------------------------------------------------------ properties

\* The key under which instance i's cache looks its current token up.
CacheKeyOf(i) == tokenCacheKey(token[i], cfg[i].secret).key

\* Instance i's cache holds an entry for its current token that the bucket
\* still serves.
CacheHolds(i) ==
    /\ cfg[i].cacheOn
    /\ token[i] # ""
    /\ KVLive(kv, CacheKeyOf(i), clock)

\* Instance i's cache has no servable entry for its current token: none was
\* written, or the one written is older than the bucket's TTL.
CacheLacks(i) ==
    /\ cfg[i].cacheOn
    /\ token[i] # ""
    /\ ~KVLive(kv, CacheKeyOf(i), clock)

\* The step in which AuthorizeToken decides and returns on instance i.
AuthorizeStep(i) == pc[i] = "verified" /\ pc'[i] = "returned"

\* C1: when the verifier returns the invalid-token failure, AuthorizeToken
\* returns Deny (not from cache, nil error) and calls neither cache.Get nor
\* cache.Put, whatever the cache holds.
C1_InvalidTokenDeniesWithoutCache ==
    \A i \in Instances :
        (pc[i] = "returned" /\ vres[i].err = ErrInvalidToken) =>
            /\ out[i].res.Allow = FALSE
            /\ out[i].res.FromCache = FALSE
            /\ out[i].err = Nil
            /\ out[i].gets = 0
            /\ out[i].puts = 0

\* C1 witness: an invalid-token denial while the cache holds a live entry
\* for that very token.
C1_Witness ==
    \E i \in Instances :
        /\ pc[i] = "returned"
        /\ vres[i].err = ErrInvalidToken
        /\ CacheHolds(i)
        /\ ~out[i].res.Allow

\* C2 (as claimed): a token GitLab has rejected, and not accepted again
\* since, is never allowed from the fallback cache.
C2_RevokedNeverServedFromCache ==
    \A i \in Instances :
        (pc[i] \in {"returned", "done"} /\ out[i].res.Allow /\ out[i].res.FromCache)
            => token[i] \notin rejected

\* C3 (as claimed): the permissions of a user JWT issued after a live
\* verification are the configured patterns expanded with the username
\* GitLab returned for the token.
C3_PermissionsUseVerifiedUsername ==
    \A i \in Instances :
        \A n \in 1..Len(replies[i].msgs) :
            (pc[i] = "done" /\ ~replies[i].msgs[n].Jwt.empty
                            /\ ~out[i].res.FromCache) =>
                replies[i].msgs[n].Jwt.Permissions =
                    BuildPermissions(out[i].res.Verified.Username)

\* C4: every published reply has either a user JWT and an empty error, or no
\* JWT and an error text; the JWT form goes out only for a request that
\* AuthorizeToken allowed with a nil error, never on a denial or error path.
C4_ReplyJwtXorError ==
    \A i \in Instances :
        \A n \in 1..Len(replies[i].msgs) :
            LET r == replies[i].msgs[n]
                rc == msg[i].claims
            IN
            /\ \/ ~r.Jwt.empty /\ r.Error = ""
               \/ r.Jwt.empty /\ r.Error # ""
            /\ ~r.Jwt.empty =>
                   /\ DecodeAuthorizationRequestClaims(msg[i]).err = Nil
                   /\ out[i].res.Allow
                   /\ out[i].err = Nil
                   /\ ValidationErrors(BuildPermissions(rc.Username)) = 0
                   /\ IsValidPublicUserKey(rc.UserNkey)

\* C4 witness: a reply carrying a user JWT was published.
C4_Witness ==
    \E i \in Instances :
        /\ pc[i] = "done"
        /\ Len(replies[i].msgs) = 1
        /\ ~replies[i].msgs[1].Jwt.empty

\* C5 (as claimed): when the verifier succeeds the result is Allow, not from
\* cache, with the principal attached; one Put and no Get.
C5_SuccessWritesOnce ==
    \A i \in Instances :
        (pc[i] = "returned" /\ vres[i].err = Nil) =>
            /\ out[i].res.Allow
            /\ ~out[i].res.FromCache
            /\ out[i].res.Verified = vres[i].vt
            /\ ~out[i].res.Verified.isNil
            /\ out[i].puts = 1
            /\ out[i].gets = 0

\* C5 (amended): when the verifier succeeds the result is Allow, not from
\* cache, with the principal attached and a nil error; the cache is not
\* read; a Put is attempted exactly once when a token cache is configured
\* and not at all when it is disabled.
C5_SuccessWritesOnceIfCacheOn ==
    \A i \in Instances :
        (pc[i] = "returned" /\ vres[i].err = Nil) =>
            /\ out[i].res.Allow
            /\ ~out[i].res.FromCache
            /\ out[i].res.Verified = vres[i].vt
            /\ ~out[i].res.Verified.isNil
            /\ out[i].err = Nil
            /\ out[i].gets = 0
            /\ out[i].puts = IF cfg[i].cacheOn THEN 1 ELSE 0

\* C5 witness: a verified token was written through to the bucket.
C5_Witness ==
    \E i \in Instances :
        /\ pc[i] = "returned"
        /\ vres[i].err = Nil
        /\ out[i].puts = 1
        /\ CacheHolds(i)

C7_TimeoutMissDenies ==
    [][\A i \in Instances :
          (/\ AuthorizeStep(i)
           /\ IsDeadlineExceeded(vres[i].err)
           /\ CacheLacks(i)
           /\ out'[i].err # ErrKVUnavailable) =>
              /\ out'[i].res.Allow = FALSE
              /\ out'[i].err = Nil]_vars

\* C7 witness: a timed-out verification was denied on an expired entry; the
\* instance is the only one that writes, so the entry it did not get served
\* is one it wrote itself in an earlier call.
C7_Witness ==
    \E i \in Instances :
        /\ \A j \in Instances \ {i} : ~cfg[j].cacheOn
        /\ pc[i] = "returned"
        /\ IsDeadlineExceeded(vres[i].err)
        /\ ~out[i].res.Allow
        /\ out[i].err = Nil
        /\ out[i].gets = 1
        /\ CacheKeyOf(i) \in DOMAIN kv

C9_NoPlaintextTokenInStore ==
    \A k \in DOMAIN kv :
        /\ k \notin Tokens
        /\ \E s \in Secrets : \E t \in Tokens \ {""} : k = HMACSHA256Hex(s, t)
        /\ DOMAIN kv[k].value = {"username", "scopes", "last_verified_at"}
        /\ \A t \in Tokens \ {""} :
              /\ \A n \in 1..Len(kv[k].value.username) :
                     kv[k].value.username[n] # t
              /\ kv[k].value.scopes # t
              /\ kv[k].value.last_verified_at # t

\* C9 witness: the bucket holds entries for two tokens.
C9_Witness == Cardinality(DOMAIN kv) = 2

\* C10 (as claimed): a handled request has exactly one published reply,
\* unless signing the response failed.
C10_ExactlyOneReplyUnlessSigning ==
    \A i \in Instances :
        pc[i] = "done" =>
            \/ Len(replies[i].msgs) = 1
            \/ Len(replies[i].msgs) = 0 /\ replies[i].failed = "sign"

\* C10 (amended): a handled request has at most one published reply, sent to
\* the request's reply subject, and has none exactly when the reply itself
\* could not be produced or sent: the throwaway user key could not be
\* generated, the response could not be encoded and signed, or Publish
\* returned an error.  No reply is published before the request is handled.
C10_OneReplyUnlessReplyFails ==
    \A i \in Instances :
        /\ pc[i] = "done" =>
              /\ Len(replies[i].msgs) <= 1
              /\ Len(replies[i].msgs) = 0 <=>
                     replies[i].failed \in {"keygen", "sign", "publish"}
              /\ Len(replies[i].msgs) = 1 =>
                     /\ replies[i].failed = ""
                     /\ replies[i].msgs[1].To = msg[i].Reply
        /\ pc[i] # "done" => replies[i].msgs = <<>>

\* C10 witness: requests that got their one reply on an error path and on
\* the success path.
C10_Witness ==
    \E i \in Instances :
        /\ pc[i] = "done"
        /\ DecodeAuthorizationRequestClaims(msg[i]).err = Nil
        /\ out[i].err # Nil
        /\ Len(replies[i].msgs) = 1
        /\ replies[i].msgs[1].Error = "authentication error"

\* The request of instance i could not be decoded.
Undecodable(i) == DecodeAuthorizationRequestClaims(msg[i]).err # Nil

\* C11 (as claimed): every undecodable request gets a reply, a denial with an
\* empty JWT and the fixed error text "invalid request format", and neither
\* the verifier nor the cache is called for it.
C11_MalformedAlwaysReplied ==
    [][\A i \in Instances :
          (Undecodable(i)' /\ pc'[i] = "done") =>
              /\ Len(replies'[i].msgs) = 1
              /\ replies'[i].msgs[1].Jwt.empty
              /\ replies'[i].msgs[1].Error = "invalid request format"
              /\ vres'[i] = NoVerifyResult
              /\ out'[i] = NoOutcome
              /\ kv' = kv
              /\ rejected' = rejected]_vars

\* C11 (amended): an undecodable request gets its reply unless the reply
\* itself cannot be produced or sent (throwaway key, encode and sign,
\* Publish); a reply that goes out is a denial with an empty JWT and the
\* fixed error text "invalid request format", whatever the payload; neither
\* the verifier nor the cache is called for the request.
C11_MalformedRepliedUnlessReplyFails ==
    [][\A i \in Instances :
          (Undecodable(i)' /\ pc'[i] = "done") =>
              /\ Len(replies'[i].msgs) <= 1
              /\ Len(replies'[i].msgs) = 0 <=>
                     replies'[i].failed \in {"keygen", "sign", "publish"}
              /\ \A n \in 1..Len(replies'[i].msgs) :
                     /\ replies'[i].msgs[n].Jwt.empty
                     /\ replies'[i].msgs[n].Error = "invalid request format"
                     /\ replies'[i].msgs[n].To = msg'[i].Reply
              /\ vres'[i] = NoVerifyResult
              /\ out'[i] = NoOutcome
              /\ kv' = kv
              /\ rejected' = rejected]_vars

\* C11 witness: an undecodable payload other than the plain garbage one was
\* answered with the fixed text while the bucket holds an entry.
C11_Witness ==
    \E i \in Instances :
        /\ pc[i] = "done"
        /\ Undecodable(i)
        /\ msg[i] # NoMsg
        /\ Len(replies[i].msgs) = 1
        /\ replies[i].msgs[1].Error = "invalid request format"
        /\ kv # <<>>

\* C12 (as claimed): an encrypted request reaching a responder without a
\* curve keypair is refused with the error "encryption not supported", and
\* is not processed.
C12_EncryptedWithoutKeyRefused ==
    \A i \in Instances :
        (pc[i] = "done" /\ msg[i].Xkey # "" /\ ~cfg[i].xKey) =>
            /\ vres[i] = NoVerifyResult
            /\ \A n \in 1..Len(replies[i].msgs) :
                   /\ replies[i].msgs[n].Jwt.empty
                   /\ replies[i].msgs[n].Error = "encryption not supported"

\* C13 (as claimed): with an encryption key signalled and a curve keypair
\* configured, the request is decrypted before it is decoded (a well-formed
\* sealed request is not answered as undecodable) and the reply is sealed for
\* the signalled key; with no key signalled the reply goes out unsealed.
C13_EncryptedRoundTrip ==
    \A i \in Instances :
        \A n \in 1..Len(replies[i].msgs) :
            pc[i] = "done" =>
                /\ (msg[i].Xkey # "" /\ cfg[i].xKey) =>
                       /\ replies[i].msgs[n].SealedFor = msg[i].Xkey
                       /\ replies[i].msgs[n].Error # "invalid request format"
                /\ msg[i].Xkey = "" => replies[i].msgs[n].SealedFor = ""

\* The request of instance i as the handler decoded it.
RequestOf(i) == DecodeAuthorizationRequestClaims(msg[i]).rc

\* C14: when the verifier succeeds and the cache Put fails, AuthorizeToken
\* returns Allow with the verified principal and a nil error, the failure
\* showing only in CacheWriteErr; the handler then publishes the success
\* reply with a user JWT exactly as it does after a successful Put (for a
\* request whose user key and permissions are valid and whose reply can be
\* sent).
C14_CacheWriteFailureStillAllows ==
    \A i \in Instances :
        (/\ pc[i] \in {"returned", "done"}
         /\ vres[i].err = Nil
         /\ out[i].res.CacheWriteErr # Nil) =>
            /\ out[i].res.Allow
            /\ ~out[i].res.FromCache
            /\ out[i].res.Verified = vres[i].vt
            /\ out[i].err = Nil
            /\ out[i].puts = 1
            /\ (/\ pc[i] = "done"
                /\ replies[i].failed = ""
                /\ IsValidPublicUserKey(RequestOf(i).UserNkey)
                /\ ValidationErrors(BuildPermissions(RequestOf(i).Username)) = 0) =>
                   /\ Len(replies[i].msgs) = 1
                   /\ ~replies[i].msgs[1].Jwt.empty
                   /\ replies[i].msgs[1].Error = ""

\* C14 witness: a user JWT was published for a request whose write-through
\* failed; the bucket has no entry for the token.
C14_Witness ==
    \E i \in Instances :
        /\ pc[i] = "done"
        /\ vres[i].err = Nil
        /\ out[i].res.CacheWriteErr # Nil
        /\ CacheKeyOf(i) \notin DOMAIN kv
        /\ Len(replies[i].msgs) = 1
        /\ ~replies[i].msgs[1].Jwt.empty

\* A verifier error that is neither the invalid-token failure nor transient.
NonTransient(err) ==
    /\ err \notin {Nil, ErrInvalidToken}
    /\ ~IsDeadlineExceeded(err)
    /\ ~IsNetError(err) /\ ~IsURLError(err) /\ ~IsOpError(err)
    /\ statusCodeFromGitLabError(err).ok => statusCodeFromGitLabError(err).code < 500

\* C15: on a verifier error that is neither invalid-token nor transient,
\* AuthorizeToken returns that error with Allow=false and without touching
\* the cache, and the reply's error is "authentication error"; a denial
\* without error is answered "invalid credentials" instead.
C15_UnclassifiedErrorPropagates ==
    \A i \in Instances :
        /\ (pc[i] \in {"returned", "done"} /\ NonTransient(vres[i].err)) =>
               /\ out[i].err = vres[i].err
               /\ ~out[i].res.Allow
               /\ out[i].gets = 0
               /\ out[i].puts = 0
               /\ pc[i] = "done" =>
                      \A n \in 1..Len(replies[i].msgs) :
                          /\ replies[i].msgs[n].Error = "authentication error"
                          /\ replies[i].msgs[n].Jwt.empty
        /\ (pc[i] = "done" /\ ~Undecodable(i) /\ out[i].err = Nil /\ ~out[i].res.Allow) =>
               \A n \in 1..Len(replies[i].msgs) :
                   /\ replies[i].msgs[n].Error = "invalid credentials"
                   /\ replies[i].msgs[n].Error # "authentication error"

\* C15 witness: a 403 from the provider was answered "authentication error"
\* by a responder whose cache holds a live entry for the token.
C15_Witness ==
    \E i \in Instances :
        /\ pc[i] = "done"
        /\ vres[i].err = ErrGitLab403
        /\ CacheHolds(i)
        /\ Len(replies[i].msgs) = 1
        /\ replies[i].msgs[1].Error = "authentication error"

\* C16: on a transient verifier failure with a cache, a miss and a store
\* error both give Allow=false; the miss returns a nil error, the store error
\* returns the store's error.
C16_MissAndStoreErrorDistinguished ==
    [][\A i \in Instances :
          (/\ AuthorizeStep(i)
           /\ isFallbackToCacheError(vres[i].err)
           /\ cfg[i].cacheOn) =>
              \A fault \in BOOLEAN :
                  LET o == AuthorizeToken(token[i], vres[i], cfg[i].cacheOn,
                                          cfg[i].secret, kv, clock, fault) IN
                  out'[i] = [o EXCEPT !.store = <<>>] =>
                      /\ fault =>
                             /\ ~out'[i].res.Allow
                             /\ out'[i].err = ErrKVUnavailable
                             /\ out'[i].err # Nil
                      /\ (~fault /\ CacheLacks(i)) =>
                             /\ ~out'[i].res.Allow
                             /\ out'[i].err = Nil
                      /\ out'[i].gets = 1]_vars

\* C16 witness: one instance stands at a miss (nil error), the other at a
\* store error, both after a transient verifier failure.
C16_Witness ==
    \E i \in Instances : \E j \in Instances \ {i} :
        /\ pc[i] = "returned" /\ pc[j] = "returned"
        /\ isFallbackToCacheError(vres[i].err)
        /\ isFallbackToCacheError(vres[j].err)
        /\ out[i].gets = 1 /\ ~out[i].res.Allow /\ out[i].err = Nil
        /\ out[j].gets = 1 /\ ~out[j].res.Allow /\ out[j].err = ErrKVUnavailable

\* The attempts a verify call has made so far.
AttemptsMade == Cardinality({k \in 1..Len(ver.log) : ver.log[k].ev = "attempt"})

\* The sleeps a verify call has taken so far.
SleepsTaken == Cardinality({k \in 1..Len(ver.log) : ver.log[k].ev = "sleep"})

\* The k-th thing the call did was an attempt GitLab answered with a 401.
UnauthorizedAt(k) ==
    /\ ver.log[k].ev = "attempt"
    /\ \/ isUnauthorizedError(ver.log[k].ans.err)
       \/ /\ ver.fn = "VerifyTokenInfo"
          /\ ver.log[k].ans.err = Nil
          /\ isUnauthorizedError(ver.log[k].ans.patErr)

\* C17: a verify call makes at most retries+1 attempts and always returns; an
\* attempt that succeeds is the last; when every attempt fails with an error
\* that is retried, the call returns the error after exactly retries+1
\* attempts; attempts and sleeps alternate, each sleep of the configured
\* delay, so k attempts come with k-1 sleeps and none follows the last.
C17_BoundedAttemptsFixedDelay ==
    /\ [](/\ AttemptsMade <= ver.retries + 1
          /\ \A k \in 1..Len(ver.log) :
                 /\ k % 2 = 1 => ver.log[k].ev = "attempt"
                 /\ k % 2 = 0 => ver.log[k] = SleepEvent(ver.delay)
                 /\ (ver.log[k].ev = "attempt" /\ ver.log[k].ans.err = Nil) =>
                        k = Len(ver.log) /\ ver.pc = "returned"
          /\ ver.pc = "sleeping" => SleepsTaken = AttemptsMade - 1
          /\ ver.pc = "calling" => SleepsTaken = AttemptsMade
          /\ (ver.pc = "returned" /\ ver.log # <<>>) =>
                 /\ ver.log[Len(ver.log)].ev = "attempt"
                 /\ SleepsTaken = AttemptsMade - 1
          /\ (/\ ver.pc = "returned"
              /\ ver.log # <<>>
              /\ \A k \in 1..Len(ver.log) :
                     ver.log[k].ev = "attempt" =>
                         ver.log[k].ans.err # Nil /\ ~UnauthorizedAt(k)) =>
                 /\ AttemptsMade = ver.retries + 1
                 /\ ver.ret.err = ver.log[Len(ver.log)].ans.err
                 /\ ver.ret.err # Nil
                 /\ ~ver.ret.ok)
    /\ (ver.pc \in {"calling", "sleeping"}) ~> (ver.pc = "returned")

\* C17 witness: with two retries configured, a call returned the provider's
\* error after three attempts and two sleeps.
C17_Witness ==
    /\ ver.pc = "returned"
    /\ ver.retries = 2
    /\ AttemptsMade = 3
    /\ SleepsTaken = 2
    /\ ver.ret.err = ErrGitLab503

\* C18: an attempt answered with a 401 is the last thing the call does: no
\* attempt and no sleep follows it, and the call returns the invalid-token
\* result (ErrInvalidToken from VerifyTokenInfo, (false, nil) from
\* VerifyToken), whatever came before and however many retries remain.
C18_NoRetryAfterUnauthorized ==
    \A k \in 1..Len(ver.log) :
        UnauthorizedAt(k) =>
            /\ k = Len(ver.log)
            /\ ver.pc = "returned"
            /\ ver.ret = invalidReturn(ver.fn)
            /\ ver.fn = "VerifyTokenInfo" => ver.ret.err = ErrInvalidToken
            /\ ver.fn = "VerifyToken" => ver.ret = VerifyReturn(FALSE, NilVerified, Nil)

\* C18 witness: a 401 on the second of three possible attempts, after a
\* timeout on the first, ended the call.
C18_Witness ==
    /\ ver.pc = "returned"
    /\ ver.retries = 2
    /\ Len(ver.log) = 3
    /\ ver.log[1].ans.err = ErrDeadlineExceeded
    /\ ver.log[3].ans.err = ErrGitLab401
    /\ ver.ret = invalidReturn(ver.fn)

\* C19 (as claimed): an attempt is followed by another only if it failed
\* transiently; one that failed with a non-transient provider error other
\* than 401 is the call's last.
C19_RetryOnlyAfterTransient ==
    \A k \in 1..Len(ver.log) :
        (/\ ver.log[k].ev = "attempt"
         /\ ver.log[k].ans.err # Nil
         /\ ~isUnauthorizedError(ver.log[k].ans.err)
         /\ ~isFallbackToCacheError(ver.log[k].ans.err)) =>
            k = Len(ver.log)

\* C20 (as claimed): while a request is blocked in verification, a request
\* waiting in the subscription can be taken up (and so decoded, decided and
\* replied to) without waiting for the first to finish.
C20_RequestsHandledConcurrently ==
    (pc["A"] = "verifying" /\ inbox # <<>>) => ENABLED Dispatch("A")

\* C21 (as claimed): whenever the handler answers a request and nothing goes
\* wrong in sending (key generation, signing and Publish all work), a reply
\* is published, and its subject is a valid user public key: the
\* requester's key when that is valid, a throwaway key otherwise.
C21_RepliesUnderValidUserKey ==
    [][\A i \in Instances :
          (pc[i] = "returned" /\ pc'[i] = "done") =>
              LET r == handleAuthorized(msg[i], RequestOf(i), out[i].res,
                                        out[i].err, "none")
                  k == RequestOf(i).UserNkey
              IN
              replies'[i] = r =>
                  /\ Len(r.msgs) = 1
                  /\ IsValidPublicUserKey(r.msgs[1].Subject)
                  /\ IsValidPublicUserKey(k) => r.msgs[1].Subject = k
                  /\ ~IsValidPublicUserKey(k) => r.msgs[1].Subject = TempNkey]_vars

\* The four lists of a permissions configuration.
ListNames == {"pubAllow", "pubDeny", "subAllow", "subDeny"}

\* A pattern that template.Parse or tmpl.Execute refuses.
TemplateFails(tmpl) == ~TemplateParses(tmpl) \/ ~TemplateExecutes(tmpl)

Passes(tmpl) == ~TemplateFails(tmpl)

\* The configuration with the refused patterns taken out.
WithoutFailing(config) ==
    [l \in ListNames |-> SelectSeq(config[l], Passes)]

\* tpl has been expanded, and its configuration holds a refused pattern.
ExpandedWithFailure ==
    /\ tpl.stage # "configured"
    /\ \E l \in ListNames : \E n \in 1..Len(tpl.config[l]) :
           TemplateFails(tpl.config[l][n])

\* Every list of the expanded permissions comes from the configured list of
\* the same name: a refused pattern stands in it as written, every pattern
\* whose expansion is not empty stands in it, and nothing else does.
ListsKept ==
    \A l \in ListNames :
        /\ \A n \in 1..Len(tpl.config[l]) :
               LET p == tpl.config[l][n]
                   s == processPermissionTemplate(p, tpl.username)
               IN
               /\ TemplateFails(p) => s = p
               /\ s # <<>> => \E m \in 1..Len(tpl.perms[l]) : tpl.perms[l][m] = s
        /\ \A m \in 1..Len(tpl.perms[l]) :
               \E n \in 1..Len(tpl.config[l]) :
                   tpl.perms[l][m] =
                       processPermissionTemplate(tpl.config[l][n], tpl.username)

ConfigPatterns ==
    UNION {{tpl.config[l][n] : n \in 1..Len(tpl.config[l])} : l \in ListNames}

\* A text holding something text/template reads as an action.
HasAction(text) == \E n \in 1..Len(text) : IsAction(text[n]) \/ text[n] = "{{"

NeverWritten(i) == [k \in DOMAIN kv \ {CacheKeyOf(i)} |-> kv[k]]

\* The bucket holds an entry for instance i's token that is past the TTL.
CacheExpired(i) ==
    /\ CacheLacks(i)
    /\ CacheKeyOf(i) \in DOMAIN kv

\* C24: a lookup of a key whose entry has expired gives what the lookup of a
\* never written key gives, the single ErrTokenCacheMiss, and on the fallback
\* path AuthorizeToken returns for the expired entry what it returns for the
\* never written one: Deny with a nil error.
C24_ExpiredSameAsNeverWritten ==
    [][\A i \in Instances :
          (/\ AuthorizeStep(i)
           /\ CacheLacks(i)
           /\ ~NonTransient(vres[i].err)
           /\ vres[i].err \notin {Nil, ErrInvalidToken}
           /\ out'[i].err # ErrKVUnavailable) =>
              LET here == JetStreamTokenCacheGet(cfg[i].secret, token[i], kv,
                                                 clock, FALSE)
                  never == JetStreamTokenCacheGet(cfg[i].secret, token[i],
                                                  NeverWritten(i), clock, FALSE)
                  other == AuthorizeToken(token[i], vres[i], TRUE, cfg[i].secret,
                                          NeverWritten(i), clock, FALSE)
              IN
              /\ here = never
              /\ here.err = ErrTokenCacheMiss
              /\ out'[i].res = other.res
              /\ out'[i].err = other.err
              /\ out'[i].res.Allow = FALSE
              /\ out'[i].err = Nil]_vars

\* C24 witness: a transient failure was answered from a bucket that still
\* holds the token's entry, past its TTL, with Deny and a nil error.
C24_Witness ==
    \E i \in Instances :
        /\ pc[i] = "returned"
        /\ CacheExpired(i)
        /\ clock - kv[CacheKeyOf(i)].storedAt > StoreTTL
        /\ out[i].gets = 1
        /\ out[i].res.Allow = FALSE
        /\ out[i].err = Nil

\* Everything logged for the request instance i has finished, the reply step
\* having met `fault`.
RequestLog(i, fault) ==
    IF Undecodable(i) THEN handleDecodeFailureLog(msg[i], fault)
    ELSE VerifyTokenInfoLog(token[i], vres[i])
         \cup JetStreamTokenCacheLog(cfg[i].secret, token[i], out[i])
         \cup handleAuthorizedLog(msg[i], RequestOf(i), out[i].res, out[i].err,
                                  fault)

\* What the handler publishes for the request of instance i under `fault`.
RequestReply(i, fault) ==
    IF Undecodable(i) THEN handleDecodeFailure(msg[i], fault)
    ELSE handleAuthorized(msg[i], RequestOf(i), out[i].res, out[i].err, fault)

HasAtom(text, t) == \E n \in 1..Len(text) : text[n] = t

\* A log record carries the token t in one of its attributes.
LogLeaks(rec, t) == t \in rec.strs \/ \E x \in rec.texts : HasAtom(x, t)

\* A published message carries the token t.
ReplyLeaks(m, t) ==
    \/ m.Error = t
    \/ HasAtom(m.Subject, t)
    \/ /\ ~m.Jwt.empty
       /\ \/ HasAtom(m.Jwt.Name, t)
          \/ HasAtom(m.Jwt.Subject, t)
          \/ \E n \in 1..Len(AllSubjects(m.Jwt.Permissions)) :
                 HasAtom(AllSubjects(m.Jwt.Permissions)[n], t)

ResponseSubject(i) ==
    LET k == IF Undecodable(i) THEN NoNkey ELSE RequestOf(i).UserNkey IN
    IF k = NoNkey \/ ~HasPrefixU(k) THEN TempNkey ELSE k

\* C26: every message published for a request is a response claim signed
\* with the issuer keypair and sent to the request's reply subject, at most
\* one per request; when encoding the response fails (the issuer key cannot
\* sign, or the subject is not a user key) nothing is published.
C26_OnlySignedRepliesPublished ==
    \A i \in Instances :
        pc[i] = "done" =>
            /\ Len(replies[i].msgs) <= 1
            /\ \A k \in 1..Len(replies[i].msgs) :
                   /\ replies[i].msgs[k].SignedBy = "issuer"
                   /\ replies[i].msgs[k].To = msg[i].Reply
                   /\ replies[i].msgs[k].Subject = ResponseSubject(i)
            /\ replies[i].failed = "sign" => replies[i].msgs = <<>>
            /\ ~IsValidPublicUserKey(ResponseSubject(i)) => replies[i].msgs = <<>>

\* C26 witness: signing the response failed for a request with a valid user
\* key, and nothing was published.
C26_Witness ==
    \E i \in Instances :
        /\ pc[i] = "done"
        /\ ~Undecodable(i)
        /\ IsValidPublicUserKey(RequestOf(i).UserNkey)
        /\ replies[i].failed = "sign"
        /\ replies[i].msgs = <<>>

\* The order of the steps of one request: decode (and reply at once when it
\* fails), the verifier call, AuthorizeToken's decision with its cache
\* operation, the reply.
StepOrder ==
    {<<"idle", "verifying">>, <<"idle", "done">>,
     <<"done", "verifying">>, <<"done", "done">>,
     <<"verifying", "verified">>, <<"verified", "returned">>,
     <<"returned", "done">>}

\* C27: a request moves through decode, verifier call, cache operation and
\* reply in this order, one step at a time; the verifier's result is set by
\* the one verifier call, the bucket changes only in the decision step, which
\* makes at most one cache operation (a Put only after verifier success, a
\* Get only after a transient failure), and no reply is published while the
\* verifier call or the cache operation is outstanding.
C27_StepsStrictlyOrdered ==
    [][\A i \in Instances :
          /\ pc'[i] # pc[i] => <<pc[i], pc'[i]>> \in StepOrder
          /\ pc'[i] \in {"verifying", "verified", "returned"} =>
                 replies'[i].msgs = <<>>
          /\ (vres'[i] # vres[i] /\ vres'[i] # NoVerifyResult) =>
                 pc[i] = "verifying" /\ pc'[i] = "verified"
          /\ (out'[i] # out[i] /\ out'[i] # NoOutcome) => AuthorizeStep(i)
          /\ AuthorizeStep(i) =>
                 /\ out'[i].gets + out'[i].puts <= 1
                 /\ out'[i].puts = 1 => vres[i].err = Nil
                 /\ out'[i].gets = 1 =>
                        /\ vres[i].err \notin {Nil, ErrInvalidToken}
                        /\ ~NonTransient(vres[i].err)
          /\ kv' # kv => \E j \in Instances : AuthorizeStep(j) /\ out'[j].puts = 1
          /\ (pc[i] = "returned" /\ pc'[i] = "done") =>
                 /\ vres'[i] = vres[i]
                 /\ out'[i] = out[i]
                 /\ kv' = kv]_vars

\* C27 witness: a request went through every step: its verifier call failed
\* transiently, its one cache operation was a Get, and its reply is out.
C27_Witness ==
    \E i \in Instances :
        /\ pc[i] = "done"
        /\ ~Undecodable(i)
        /\ IsDeadlineExceeded(vres[i].err)
        /\ out[i].gets = 1
        /\ out[i].puts = 0
        /\ Len(replies[i].msgs) = 1

\* The bucket with what it holds under keys k1 and k2 exchanged: a lookup of
\* k2 in it gives what a lookup of k1 gives in `store`.
SwapKeys(store, k1, k2) ==
    LET swap(k) == IF k = k1 THEN k2 ELSE IF k = k2 THEN k1 ELSE k IN
    [k \in {swap(x) : x \in DOMAIN store} |-> store[swap(k)]]

\* What the verifier returns for token t2 when it signals for it what vr
\* signals: the same failure, or success with t2's own identity.
SameKind(vr, t2) ==
    IF vr.err = Nil
    THEN VerifyResult(VerifiedToken(GitLabUsername(t2), GitLabScopes(t2)), Nil)
    ELSE vr

\* C28: the decision AuthorizeToken returns for a token is the decision it
\* returns for any other token for which the verifier signals the same kind
\* of outcome and the cache operation gives the same result: same Allow,
\* FromCache, cache-write error, error and cache calls.
C28_DecisionIndependentOfTokenContent ==
    [][\A i \in Instances : \A t2 \in Tokens \ {""} : \A fault \in BOOLEAN :
          (/\ AuthorizeStep(i)
           /\ token[i] # ""
           /\ out'[i] = [AuthorizeToken(token[i], vres[i], cfg[i].cacheOn,
                                        cfg[i].secret, kv, clock, fault)
                             EXCEPT !.store = <<>>]) =>
              LET k2 == tokenCacheKey(t2, cfg[i].secret).key
                  o2 == AuthorizeToken(t2, SameKind(vres[i], t2), cfg[i].cacheOn,
                                       cfg[i].secret,
                                       SwapKeys(kv, CacheKeyOf(i), k2),
                                       clock, fault)
              IN
              /\ o2.res.Allow = out'[i].res.Allow
              /\ o2.res.FromCache = out'[i].res.FromCache
              /\ o2.res.CacheWriteErr = out'[i].res.CacheWriteErr
              /\ o2.err = out'[i].err
              /\ o2.gets = out'[i].gets
              /\ o2.puts = out'[i].puts]_vars

\* C28 witness: two instances hold different tokens, and one of them was
\* allowed from the cache after a transient failure while the bucket has no
\* entry for the other's token.
C28_Witness ==
    \E i \in Instances : \E j \in Instances \ {i} :
        /\ pc[i] = "returned"
        /\ token[i] # "" /\ token[j] # "" /\ token[j] # token[i]
        /\ vres[i].err \notin {Nil, ErrInvalidToken}
        /\ out[i].res.FromCache
        /\ tokenCacheKey(token[j], cfg[j].secret).key \notin DOMAIN kv

\* The k-th attempt of the current call ran until its deadline.
HungAttempt(k) ==
    /\ k \in 1..Len(ver.spans)
    /\ ver.spans[k].end = ver.spans[k].deadline

\* C29: every attempt has a deadline of its own, the configured timeout
\* after the moment the attempt starts, whatever the attempts before it took,
\* and ends no later than that deadline; attempts do not overlap.
C29_FreshDeadlinePerAttempt ==
    \A k \in 1..Len(ver.spans) :
        /\ ver.spans[k].deadline = ver.spans[k].start + GitLabTimeout
        /\ ver.spans[k].start <= ver.spans[k].end
        /\ ver.spans[k].end <= ver.spans[k].deadline
        /\ k > 1 => ver.spans[k].start >= ver.spans[k - 1].end
        /\ (k > 1 /\ HungAttempt(k - 1)) =>
               ver.spans[k].deadline - ver.spans[k].start
                   = ver.spans[k - 1].deadline - ver.spans[k - 1].start

\* C29 witness: the first attempt hung until its deadline, and a later
\* attempt still had, and used, the whole timeout.
C29_Witness ==
    /\ Len(ver.spans) >= 2
    /\ HungAttempt(1)
    /\ ver.spans[2].end - ver.spans[2].start = GitLabTimeout

WrittenFor(store, k, t, secret) ==
    /\ t # ""
    /\ k = tokenCacheKey(t, secret).key
    /\ unmarshalTokenCacheEntry(store[k].value).entry.Username = GitLabUsername(t)

\* C31: AuthorizeToken allows a token only when the verifier has just
\* verified it, or when the bucket still serves an entry that a successful
\* verification of that very token wrote; every entry of the bucket stems
\* from a verification of exactly one token, the one its key derives from.
C31_AllowOnlyAfterVerificationOfSameToken ==
    [][/\ \A k \in DOMAIN kv' :
              /\ \E t \in Tokens : WrittenFor(kv', k, t, SharedSecret)
              /\ \A t1 \in Tokens : \A t2 \in Tokens :
                     (WrittenFor(kv', k, t1, SharedSecret)
                      /\ WrittenFor(kv', k, t2, SharedSecret)) => t1 = t2
       /\ \A i \in Instances :
              (AuthorizeStep(i) /\ out'[i].res.Allow) =>
                  \/ /\ vres[i].err = Nil
                     /\ ~vres[i].vt.isNil
                     /\ vres[i].vt.Username = GitLabUsername(token[i])
                     /\ ~out'[i].res.FromCache
                  \/ /\ out'[i].res.FromCache
                     /\ cfg[i].cacheOn
                     /\ KVLive(kv, CacheKeyOf(i), clock)
                     /\ WrittenFor(kv, CacheKeyOf(i), token[i], cfg[i].secret)
                     /\ \A t \in Tokens \ {token[i]} :
                            ~WrittenFor(kv, CacheKeyOf(i), t, cfg[i].secret)]_vars

\* C31 witness: the bucket serves an entry for one token only; that token
\* was allowed from the cache on one instance, and the other instance, whose
\* verifier failed transiently for a different token, denied it.
C31_Witness ==
    \E i \in Instances : \E j \in Instances \ {i} :
        /\ pc[i] = "returned" /\ pc[j] = "returned"
        /\ token[i] # token[j] /\ token[j] # ""
        /\ out[i].res.FromCache
        /\ out[j].gets = 1
        /\ ~out[j].res.Allow
        /\ out[j].err = Nil
        /\ CacheKeyOf(i) \in DOMAIN kv
        /\ CacheKeyOf(j) \notin DOMAIN kv

\* The classes the classification is stated in: a deadline-exceeded error,
\* a network error reporting timeout or temporary, a *net.OpError, a
\* provider response of status 500 or more.
TransientClass(err) ==
    \/ IsDeadlineExceeded(err)
    \/ IsNetError(err) /\ (NetTimeout(err) \/ NetTemporary(err))
    \/ IsOpError(err)
    \/ statusCodeFromGitLabError(err).ok /\ statusCodeFromGitLabError(err).code >= 500

\* C32: isFallbackToCacheError holds of the verifier's error exactly when
\* the error is of a transient class; it is false for nil, for provider
\* statuses below 500 and for every other error, and AuthorizeToken reads
\* the cache only for errors it holds of.
C32_TransientClassification ==
    [][\A i \in Instances :
          AuthorizeStep(i) =>
              LET e == vres[i].err IN
              /\ isFallbackToCacheError(e) <=> (e # Nil /\ TransientClass(e))
              /\ e \in {Nil, ErrGitLab403, ErrGitLab404, ErrGitLab429,
                        ErrCanceled, ErrCertificate, ErrKVUnavailable} =>
                     ~isFallbackToCacheError(e)
              /\ e \in {ErrDeadlineExceeded, ErrHeaderTimeout,
                        ErrResolverTemporary, ErrDialRefused, ErrGitLab500,
                        ErrGitLab503} => isFallbackToCacheError(e)
              /\ out'[i].gets = 1 =>
                     /\ cfg[i].cacheOn
                     /\ e # ErrInvalidToken
                     /\ TransientClass(e)
              /\ (cfg[i].cacheOn /\ e # ErrInvalidToken /\ TransientClass(e)) =>
                     out'[i].gets = 1]_vars

\* C32 witness: a rate-limited provider (429) did not lead to a cache read
\* although the cache holds the token's entry; the error came back.
C32_Witness ==
    \E i \in Instances :
        /\ pc[i] = "returned"
        /\ vres[i].err = ErrGitLab429
        /\ CacheHolds(i)
        /\ out[i].gets = 0
        /\ out[i].err = ErrGitLab429

\* The positions of the attempts in the call's record.
AttemptPositions == {k \in 1..Len(ver.log) : ver.log[k].ev = "attempt"}

\* The error the last attempt of the call ended with.
LastAttemptErr ==
    ver.log[CHOOSE k \in AttemptPositions : \A j \in AttemptPositions : j <= k].ans.err

\* VerifyTokenInfo has returned after every one of its attempts failed.
AllAttemptsFailed ==
    /\ ver.pc = "returned"
    /\ ver.fn = "VerifyTokenInfo"
    /\ AttemptsMade = ver.retries + 1
    /\ ver.ret.err \notin {Nil, ErrInvalidToken}

\* C33: when every attempt failed, the error VerifyTokenInfo returns is the
\* last attempt's, and AuthorizeToken, given that result with a cache, reads
\* the cache exactly when the last attempt's failure was transient, whatever
\* the earlier attempts failed with.
C33_FallbackFollowsLastAttempt ==
    AllAttemptsFailed =>
        LET o == AuthorizeToken(ver.token,
                                VerifyResult(ver.ret.vt, ver.ret.err), TRUE,
                                SharedSecret, kv, clock, FALSE)
        IN
        /\ \A k \in AttemptPositions : ver.log[k].ans.err # Nil
        /\ ver.ret.err = LastAttemptErr
        /\ ver.lastErr = LastAttemptErr
        /\ o.gets = 1 <=> TransientClass(LastAttemptErr)
        /\ ~TransientClass(LastAttemptErr) =>
               /\ ~o.res.Allow
               /\ o.err = LastAttemptErr

\* C33 witness: the first attempt timed out, the last one was refused with
\* a 403, and the call returned the 403.
C33_Witness ==
    /\ AllAttemptsFailed
    /\ Len(ver.log) >= 3
    /\ ver.log[1].ev = "attempt"
    /\ ver.log[1].ans.err = ErrDeadlineExceeded
    /\ LastAttemptErr = ErrGitLab403
    /\ ver.ret.err = ErrGitLab403

\* The k-th thing the current VerifyTokenInfo call did was an attempt whose
\* user lookup succeeded and whose scope lookup ended with patErr.
ScopeLookupAt(k, patErr) ==
    /\ ver.fn = "VerifyTokenInfo"
    /\ k \in AttemptPositions
    /\ ver.log[k].ans.err = Nil
    /\ ver.log[k].ans.patErr = patErr

ScopeErrors == {ErrGitLab403, ErrDeadlineExceeded}

\* C34 (as claimed): after a user lookup that succeeded the call returns
\* without another attempt: ErrInvalidToken when the scope lookup was
\* answered 401, and the verified token with no scopes when the scope lookup
\* failed in another way.
C34_ScopeFailureStillVerifies ==
    \A k \in 1..Len(ver.log) :
        /\ ScopeLookupAt(k, ErrGitLab401) =>
               /\ k = Len(ver.log) /\ ver.pc = "returned"
               /\ ver.ret.err = ErrInvalidToken
        /\ \A e \in ScopeErrors :
               ScopeLookupAt(k, e) =>
                   /\ k = Len(ver.log) /\ ver.pc = "returned"
                   /\ ver.ret.err = Nil
                   /\ ~ver.ret.vt.isNil
                   /\ ver.ret.vt.Scopes = <<>>

\* C34 (amended): the same, the verified token being returned when the user
\* lookup gave a user with a name; a user without a name is reported as
\* ErrInvalidToken whatever the scope lookup did.
C34_ScopeFailureStillVerifiesNamedUser ==
    \A k \in 1..Len(ver.log) :
        /\ ScopeLookupAt(k, ErrGitLab401) =>
               /\ k = Len(ver.log) /\ ver.pc = "returned"
               /\ ver.ret.err = ErrInvalidToken
        /\ \A e \in ScopeErrors :
               ScopeLookupAt(k, e) =>
                   /\ k = Len(ver.log) /\ ver.pc = "returned"
                   /\ IF ver.log[k].ans.user # <<>>
                      THEN /\ ver.ret.err = Nil
                           /\ ~ver.ret.vt.isNil
                           /\ ver.ret.vt.Username = ver.log[k].ans.user
                           /\ ver.ret.vt.Scopes = <<>>
                      ELSE /\ ver.ret.err = ErrInvalidToken
                           /\ ver.ret.vt.isNil

\* C34 witness: on a second attempt the user lookup gave a named user and
\* the scope lookup timed out; the call returned the token as verified.
C34_Witness ==
    /\ ScopeLookupAt(Len(ver.log), ErrDeadlineExceeded)
    /\ Len(ver.log) >= 3
    /\ ver.log[Len(ver.log)].ans.user # <<>>
    /\ ver.pc = "returned"
    /\ ver.ret.err = Nil
    /\ ver.ret.vt.Scopes = <<>>

\* C35: without a cache AuthorizeToken never answers from the cache and
\* makes no cache call: a verifier success is Allow with a nil
\* CacheWriteErr, an invalid token is Deny with a nil error, and every other
\* verifier failure, timeouts included, comes back as the error with
\* Allow=false, which the responder answers with "authentication error" and
\* no JWT.
C35_NoCacheNoFallback ==
    \A i \in Instances :
        (~cfg[i].cacheOn /\ pc[i] \in {"returned", "done"} /\ ~Undecodable(i)) =>
            /\ ~out[i].res.FromCache
            /\ out[i].gets = 0 /\ out[i].puts = 0
            /\ out[i].res.CacheWriteErr = Nil
            /\ vres[i].err = Nil =>
                   /\ out[i].res.Allow
                   /\ out[i].res.Verified = vres[i].vt
                   /\ out[i].err = Nil
            /\ vres[i].err = ErrInvalidToken =>
                   ~out[i].res.Allow /\ out[i].err = Nil
            /\ vres[i].err \notin {Nil, ErrInvalidToken} =>
                   /\ ~out[i].res.Allow
                   /\ out[i].err = vres[i].err
                   /\ pc[i] = "done" =>
                          \A k \in 1..Len(replies[i].msgs) :
                              /\ replies[i].msgs[k].Error = "authentication error"
                              /\ replies[i].msgs[k].Jwt.empty

\* C35 witness: with the cache disabled the provider timed out, and the
\* request was answered with "authentication error".
C35_Witness ==
    \E i \in Instances :
        /\ ~cfg[i].cacheOn
        /\ pc[i] = "done"
        /\ IsDeadlineExceeded(vres[i].err)
        /\ out[i].err = ErrDeadlineExceeded
        /\ Len(replies[i].msgs) = 1
        /\ replies[i].msgs[1].Error = "authentication error"

\* The bucket serves, under the key of instance i's token, bytes that do
\* not decode.
CacheUndecodable(i) ==
    /\ CacheHolds(i)
    /\ kv[CacheKeyOf(i)].value = NotJSON

\* C36: when the bucket serves undecodable bytes for the token on the
\* fallback path, Get returns the decoding error, which is neither a hit nor
\* ErrTokenCacheMiss; AuthorizeToken returns Allow=false with that error, and
\* whatever is then published carries "authentication error" and no JWT.
C36_UndecodableEntryNeverAllows ==
    [][\A i \in Instances :
          /\ (/\ AuthorizeStep(i)
              /\ CacheUndecodable(i)
              /\ vres[i].err \notin {Nil, ErrInvalidToken}
              /\ ~NonTransient(vres[i].err)
              /\ out'[i].err # ErrKVUnavailable) =>
                 LET got == JetStreamTokenCacheGet(cfg[i].secret, token[i], kv,
                                                   clock, FALSE) IN
                 /\ got.err \notin {Nil, ErrTokenCacheMiss}
                 /\ out'[i].gets = 1
                 /\ ~out'[i].res.Allow
                 /\ ~out'[i].res.FromCache
                 /\ out'[i].err = got.err
          /\ (/\ pc[i] = "returned" /\ pc'[i] = "done"
              /\ out[i].err = "json: cannot unmarshal") =>
                 \A k \in 1..Len(replies'[i].msgs) :
                     /\ replies'[i].msgs[k].Jwt.empty
                     /\ replies'[i].msgs[k].Error = "authentication error"]_vars

\* C36 witness: a request whose verification failed transiently met
\* undecodable bytes under its token's key and was answered with
\* "authentication error" and no JWT.
C36_Witness ==
    \E i \in Instances :
        /\ pc[i] = "done"
        /\ out[i].gets = 1
        /\ out[i].err = "json: cannot unmarshal"
        /\ ~out[i].res.Allow
        /\ Len(replies[i].msgs) = 1
        /\ replies[i].msgs[1].Jwt.empty

\* The time since the entry for instance i's current token was written, which
\* is the time since that token's last successful live verification.
EntryAge(i) == clock - kv[CacheKeyOf(i)].storedAt

\* C37: with the cache configured with TTL StoreTTL, AuthorizeToken never
\* returns Allow from the cache for a token whose entry was written more than
\* StoreTTL earlier, whether the instance created the bucket or bound to one
\* that already existed.
C37_NoHitOlderThanConfiguredTTL ==
    [][\A i \in Instances :
          (AuthorizeStep(i) /\ out'[i].res.FromCache) =>
              /\ CacheKeyOf(i) \in DOMAIN kv
              /\ EntryAge(i) <= StoreTTL]_vars

\* The shape of a value AuthorizeToken returns: the result and the error.
WellFormed(res, err) ==
    /\ err # Nil => ~res.Allow
    /\ res.FromCache =>
           res.Allow /\ res.Verified.isNil /\ res.CacheWriteErr = Nil
    /\ ~res.Verified.isNil <=> (res.Allow /\ ~res.FromCache)
    /\ res.CacheWriteErr # Nil =>
           res.Allow /\ ~res.Verified.isNil /\ err = Nil

\* C38: every value AuthorizeToken returns is well-formed: an error comes with
\* Deny; FromCache comes with Allow, no Verified and no CacheWriteErr; Verified
\* is set exactly on Allow that is not from the cache; CacheWriteErr comes
\* with Allow, a Verified and a nil error.
C38_ResultWellFormed ==
    \A i \in Instances :
        pc[i] = "returned" => WellFormed(out[i].res, out[i].err)

\* C38 witness: one caller was allowed from the cache while another was
\* allowed live with a failed cache write.
C38_Witness ==
    \E i, j \in Instances :
        /\ pc[i] = "returned" /\ pc[j] = "returned"
        /\ out[i].res.FromCache /\ out[i].res.Allow
        /\ out[j].res.CacheWriteErr # Nil /\ out[j].res.Allow
        /\ ~out[j].res.Verified.isNil

\* The k-th thing the current verify call did was an attempt that GitLab
\* answered without an error and without a username.
NoUsernameAt(k) ==
    /\ k \in AttemptPositions
    /\ ver.log[k].ans.err = Nil
    /\ ver.log[k].ans.user = <<>>

\* The current verify call has returned the token as invalid: VerifyTokenInfo
\* nil with ErrInvalidToken, VerifyToken false with a nil error.
ReturnedInvalid ==
    /\ ver.pc = "returned"
    /\ ~ver.ret.ok
    /\ ver.ret.vt.isNil
    /\ ver.fn = "VerifyTokenInfo" => ver.ret.err = ErrInvalidToken
    /\ ver.fn = "VerifyToken" => ver.ret.err = Nil

\* C39: a verify call with the empty token returns it as invalid without any
\* attempt; an attempt answered without a username is the last thing its call
\* does and the call returns the token as invalid: ErrInvalidToken from
\* VerifyTokenInfo, (false, nil) from VerifyToken.  AuthorizeToken, given
\* VerifyTokenInfo's result for the empty token, denies with a nil error and
\* neither reads nor writes the cache.
C39_EmptyTokenAndEmptyUserAreInvalid ==
    /\ (ver.pc # "idle" /\ ver.token = "") =>
           /\ ReturnedInvalid
           /\ ver.log = <<>>
           /\ ver.spans = <<>>
           /\ ver.fn = "VerifyTokenInfo" =>
                  \A on \in BOOLEAN, fault \in BOOLEAN :
                      LET o == AuthorizeToken(ver.token,
                                              VerifyResult(ver.ret.vt, ver.ret.err),
                                              on, SharedSecret, kv, clock, fault)
                      IN
                      /\ ~o.res.Allow
                      /\ ~o.res.FromCache
                      /\ o.err = Nil
                      /\ o.gets = 0
                      /\ o.puts = 0
                      /\ o.store = kv
    /\ \A k \in 1..Len(ver.log) :
           NoUsernameAt(k) =>
               /\ k = Len(ver.log)
               /\ ReturnedInvalid

\* C39 witness: GitLab answered the first attempt of a VerifyTokenInfo call
\* that had retries left with no error and no username, and the call
\* returned ErrInvalidToken there.
C39_Witness ==
    /\ ver.pc = "returned"
    /\ ver.fn = "VerifyTokenInfo"
    /\ ver.token # ""
    /\ ver.retries >= 1
    /\ Len(ver.log) = 1
    /\ NoUsernameAt(1)
    /\ ver.log[1].ans.patErr = Nil
    /\ ver.ret.err = ErrInvalidToken

====
